---- MODULE Spec2Model ----
(***************************************************************************)
(* Model of the futures backtest simulator (runFuturesBacktest) of the     *)
(* trading dashboard.                                                      *)
(*                                                                         *)
(* Numbers.  The program computes with IEEE doubles; the model computes    *)
(* with exact integers.  One model price unit is a quarter of 0.01 price   *)
(* points, so one "cent" (the resolution generateFuturesPrediction rounds  *)
(* its levels to) is CentUnits = 4 units.  Bar closes and the slippage are *)
(* whole cents and the trailing-stop percentages are 25 and 50, so every   *)
(* product price * (1 -/+ pct/100) the program forms is a whole number of  *)
(* units and the integer division below is exact.  Ratios the program      *)
(* keeps as doubles (percentages, drawdown) are kept as <<num, den>> pairs *)
(* and compared by cross-multiplication.                                   *)
(***************************************************************************)
EXTENDS Integers, Sequences, FiniteSets, TLC

\* ------------------------------------------------------------------ bounds
MaxBars == 3

\* ------------------------------------------------------- program constants
WarmUp == 200
SampleEvery == 10
ConfidenceFloor == 70
CentUnits == 4
NaN == -999999

\* ------------------------------------------------------------ input spaces
Prices == {40, 48, 56}

\* close of every bar of the warm-up window (bars 0 .. WarmUp-1)
WarmUpClose == 48

Contracts ==
  { [symbol |-> "NIFTY", lotSize |-> 1, marginRequired |-> 150, lastPrice |-> 48],
    [symbol |-> "BANKNIFTY", lotSize |-> 2, marginRequired |-> 150, lastPrice |-> 48] }

\* trailingStopPercent is held in tenths of a percent
Configs ==
  { [initialCapital |-> 400, positionSize |-> 2, maxPositions |-> 2,
     riskPerTrade |-> 2, useStopLoss |-> sl, useTrailingStop |-> ts,
     trailingStopPercent |-> 250, commission |-> 1, slippage |-> 4]
      : sl \in BOOLEAN, ts \in BOOLEAN }
  \cup
  { [initialCapital |-> 200, positionSize |-> 1, maxPositions |-> 1,
     riskPerTrade |-> 0, useStopLoss |-> TRUE, useTrailingStop |-> TRUE,
     trailingStopPercent |-> 500, commission |-> 0, slippage |-> 0] }

\* <<composite score in tenths, average true range in units>> that the
\* indicator pipeline hands to the decision part of generateFuturesPrediction
PredInputs == { <<850, 8>>, <<705, 3>>, <<704, 3>>, <<500, 8>>, <<295, 0>>, <<150, 8>> }

NoPrediction ==
  [prediction |-> "NONE", confidence |-> 0, targetPrice |-> 0, stopLoss |-> 0]

\* no metrics yet
NoMetrics == << >>

\* placeholder for "no position" (type NONE)
NoPosition ==
  [entryDate |-> 0, symbol |-> "", type |-> "NONE", entryPrice |-> 0,
   quantity |-> 0, stopLoss |-> 0, target |-> 0, trailingStop |-> 0]

\* the locals of one iteration of the exit scan, before the first iteration
NoScan ==
  [position |-> NoPosition, shouldExit |-> FALSE, exitReason |-> "SIGNAL",
   exitPrice |-> 0]

\* ---------------------------------------------------------------- helpers
Abs(x) == IF x < 0 THEN 0 - x ELSE x
Max(a, b) == IF a >= b THEN a ELSE b
Min(a, b) == IF a <= b THEN a ELSE b

\* Math.round of a value given in tenths: floor(x + 0.5)
RoundTenths(x10) == (x10 + 5) \div 10

\* Math.round(x * 100) / 100 of a price given in half units
RoundCents(x2) == ((x2 + CentUnits) \div (2 * CentUnits)) * CentUnits

\* ratios as <<num, den>> with den > 0; a <= b for ratios that are not
\* negative, compared by their whole parts and then by the reciprocals of
\* what is left, so that no product of a numerator and a denominator is
\* formed
RECURSIVE RatLeq(_, _)
RatLeq(a, b) ==
  IF a[1] \div a[2] # b[1] \div b[2]
  THEN a[1] \div a[2] < b[1] \div b[2]
  ELSE IF a[1] % a[2] = 0
       THEN TRUE
       ELSE IF b[1] % b[2] = 0
            THEN FALSE
            ELSE RatLeq(<< b[2], b[1] % b[2] >>, << a[2], a[1] % a[2] >>)
RatMax(a, b) == IF RatLeq(b, a) THEN a ELSE b
RatZero == <<0, 1>>

VARIABLES
  contract, config, len, closes,    \* the arguments of runFuturesBacktest
  pc, i, j,                         \* position in the function and loop indices
  openPositions, trades, equityCurve,
  capital, peakCapital, currentDrawdown, maxDrawdown,
  prediction,                       \* the prediction of the current bar
  scan,                             \* position, shouldExit, exitReason, exitPrice
                                    \* of the latest iteration of the exit scan
  metrics                           \* the metrics of the result

\* the genetic optimizer (evolutionary training of the strategy parameters)
VARIABLES
  population,                       \* populationRef.current
  generation,                       \* generationRef.current
  candles,                          \* the candle series of the training run
  random,                           \* the state of Math.random
  phase,                            \* position in runTrainingStep
  backtested,                       \* indices (into its argument) of the
                                    \* individuals the latest evaluatePopulation
                                    \* called backtestStrategy for
  params, mutated                   \* an argument of mutate and its result

backtest == << contract, config, len, closes, pc, i, j, openPositions, trades,
               equityCurve, capital, peakCapital, currentDrawdown, maxDrawdown,
               prediction, scan, metrics >>

optimizer == << population, generation, candles, random, phase, backtested,
                params, mutated >>

\* two runs of runFuturesBacktest side by side
VARIABLES
  left, right,                      \* the two runs
  bar                               \* the bar both are about to process

twin == << left, right, bar >>

\* the training panel
VARIABLES
  trainingRef,                      \* trainingRef.current
  isTraining,                       \* the state the buttons are drawn from
  bestStrategy,                     \* the individual the panel shows
  timers,                           \* the pending setTimeout callbacks, each
                                    \* with its currentCandles, earliest first
  log,                              \* the optimizer calls made since the
                                    \* latest startTraining, in order
  starts                            \* the number of training runs started

panel == << trainingRef, isTraining, bestStrategy, timers, log, starts >>

\* the objects of the optimizer
VARIABLES
  heap,                             \* the objects, by reference
  populationRef                     \* the array populationRef.current refers to

objects == << heap, populationRef >>

\* a run of runFuturesBacktest and a call of backtestStrategy on a series
\* whose indicators are computed from its bars
VARIABLES
  historicalData,                   \* the bars, oldest first
  walk,                             \* the locals of the run
  at,                               \* the bar the run is about to process
  strategy                          \* the result of backtestStrategy

series == << historicalData, walk, at, strategy >>

\* a call of one of the indicator functions
VARIABLES
  probe,                            \* the function and its arguments
  answer                            \* what it returned

functions == << probe, answer >>

\* the order service (FuturesAPIService)
VARIABLES
  orders,                           \* this.orders
  positions,                        \* this.positions
  fills,                            \* the pending fill timers, each with the
                                    \* index of its order, earliest first
  calls,                            \* the calls of placeOrder and cancelOrder
                                    \* that wait in simulateDelay
  results                           \* what the calls of cancelOrder returned

service == << orders, positions, fills, calls, results >>

vars == << backtest, optimizer, twin, panel, objects, series, functions, service >>

args == << contract, config, len, closes >>

\* the state of the components a run of runFuturesBacktest does not touch
others == << optimizer, twin, panel, objects, series, functions, service >>

\* historicalData[k].close
Close(k) == IF k < WarmUp THEN WarmUpClose ELSE closes[k - WarmUp + 1]

\* historicalData[k].timestamp, in units of a quarter day (TicksPerDay is
\* the divisor 1000 * 60 * 60 * 24 in these units); strictly ascending, the
\* bars alternately five and three ticks apart
TicksPerDay == 4
Timestamp(k) == TicksPerDay * k + (k % 2)

\* what an index outside of an array reads, and the failure of reading a
\* property of it
Undefined == [type |-> "undefined"]
TypeError == [error |-> "TypeError"]

\* line 327: the result reads historicalData[200].timestamp; a series of
\* n bars without a bar 200 has undefined there and the read is a TypeError
ReturnResult(n) == IF WarmUp < n THEN "done" ELSE "typeError"

\* --------------------------------------------- generateFuturesPrediction
PredictionLabel(score10) ==
  IF score10 >= 800 THEN "STRONG_BUY"
  ELSE IF score10 >= 600 THEN "BUY"
  ELSE IF score10 >= 400 THEN "HOLD"
  ELSE IF score10 >= 200 THEN "SELL"
  ELSE "STRONG_SELL"

PredictionConfidence(score10) ==
  IF score10 >= 800 THEN RoundTenths(Min(score10, 950))
  ELSE IF score10 >= 600 THEN RoundTenths(score10)
  ELSE IF score10 >= 400 THEN RoundTenths(1000 - Abs(score10 - 500))
  ELSE IF score10 >= 200 THEN RoundTenths(1000 - score10)
  ELSE RoundTenths(Min(1000 - score10, 950))

\* twice the ATR multiplier of the time horizon
AtrMultiplier2(score10) ==
  IF score10 >= 800 \/ score10 < 200 THEN 3
  ELSE IF score10 >= 600 \/ score10 < 400 THEN 5
  ELSE 7

generateFuturesPrediction(c, score10, atr) ==
  LET label == PredictionLabel(score10)
      buy == label \in {"STRONG_BUY", "BUY"}
      targetDistance2 == atr * AtrMultiplier2(score10)
      stopDistance2 == atr * 2
      target2 == IF buy THEN 2 * c.lastPrice + targetDistance2
                        ELSE 2 * c.lastPrice - targetDistance2
      stop2 == IF buy THEN 2 * c.lastPrice - stopDistance2
                      ELSE 2 * c.lastPrice + stopDistance2
  IN [prediction |-> label,
      confidence |-> PredictionConfidence(score10),
      targetPrice |-> RoundCents(target2),
      stopLoss |-> RoundCents(stop2)]

\* ------------------------------------------------------ runFuturesBacktest
UnrealizedPnL(position, currentPrice) ==
  IF position.type = "LONG"
  THEN (currentPrice - position.entryPrice) * position.quantity
  ELSE (position.entryPrice - currentPrice) * position.quantity

\* variant: the trailing stop follows the price without the max / min
UpdateTrailingStopNoRatchet(position, currentPrice, cfg) ==
  LET currentPnL == UnrealizedPnL(position, currentPrice)
  IN IF cfg.useTrailingStop /\ position.type = "LONG" /\ currentPnL > 0
     THEN [position EXCEPT !.trailingStop =
             (currentPrice * (1000 - cfg.trailingStopPercent)) \div 1000]
     ELSE IF cfg.useTrailingStop /\ position.type = "SHORT" /\ currentPnL > 0
     THEN [position EXCEPT !.trailingStop =
             (currentPrice * (1000 + cfg.trailingStopPercent)) \div 1000]
     ELSE position

UpdateTrailingStop(position, currentPrice, cfg) ==
  LET currentPnL == UnrealizedPnL(position, currentPrice)
  IN IF cfg.useTrailingStop /\ position.type = "LONG" /\ currentPnL > 0
     THEN [position EXCEPT !.trailingStop =
             Max(position.trailingStop,
                 (currentPrice * (1000 - cfg.trailingStopPercent)) \div 1000)]
     ELSE IF cfg.useTrailingStop /\ position.type = "SHORT" /\ currentPnL > 0
     THEN [position EXCEPT !.trailingStop =
             Min(position.trailingStop,
                 (currentPrice * (1000 + cfg.trailingStopPercent)) \div 1000)]
     ELSE position

\* variant: the trailing stop is tested whether or not it is in use
ExitDecisionTrailingAlways(position, currentPrice, cfg) ==
  LET long == position.type = "LONG"
      stopHit == cfg.useStopLoss /\
                 IF long THEN currentPrice <= position.stopLoss
                         ELSE currentPrice >= position.stopLoss
      trailHit == IF long THEN currentPrice <= position.trailingStop
                          ELSE currentPrice >= position.trailingStop
      targetHit == IF long THEN currentPrice >= position.target
                           ELSE currentPrice <= position.target
  IN IF stopHit
     THEN [shouldExit |-> TRUE, exitReason |-> "STOP_LOSS",
           exitPrice |-> IF long THEN position.stopLoss - cfg.slippage
                                 ELSE position.stopLoss + cfg.slippage]
     ELSE IF trailHit
     THEN [shouldExit |-> TRUE, exitReason |-> "STOP_LOSS",
           exitPrice |-> IF long THEN position.trailingStop - cfg.slippage
                                 ELSE position.trailingStop + cfg.slippage]
     ELSE IF targetHit
     THEN [shouldExit |-> TRUE, exitReason |-> "TARGET",
           exitPrice |-> position.target]
     ELSE [shouldExit |-> FALSE, exitReason |-> "SIGNAL",
           exitPrice |-> currentPrice]

\* variant: the target is tested before the stops
ExitDecisionTargetFirst(position, currentPrice, cfg) ==
  LET long == position.type = "LONG"
      stopHit == cfg.useStopLoss /\
                 IF long THEN currentPrice <= position.stopLoss
                         ELSE currentPrice >= position.stopLoss
      trailHit == cfg.useTrailingStop /\
                  IF long THEN currentPrice <= position.trailingStop
                          ELSE currentPrice >= position.trailingStop
      targetHit == IF long THEN currentPrice >= position.target
                           ELSE currentPrice <= position.target
  IN IF targetHit
     THEN [shouldExit |-> TRUE, exitReason |-> "TARGET",
           exitPrice |-> position.target]
     ELSE IF stopHit
     THEN [shouldExit |-> TRUE, exitReason |-> "STOP_LOSS",
           exitPrice |-> IF long THEN position.stopLoss - cfg.slippage
                                 ELSE position.stopLoss + cfg.slippage]
     ELSE IF trailHit
     THEN [shouldExit |-> TRUE, exitReason |-> "STOP_LOSS",
           exitPrice |-> IF long THEN position.trailingStop - cfg.slippage
                                 ELSE position.trailingStop + cfg.slippage]
     ELSE [shouldExit |-> FALSE, exitReason |-> "SIGNAL",
           exitPrice |-> currentPrice]

ExitDecision(position, currentPrice, cfg) ==
  LET long == position.type = "LONG"
      stopHit == cfg.useStopLoss /\
                 IF long THEN currentPrice <= position.stopLoss
                         ELSE currentPrice >= position.stopLoss
      trailHit == cfg.useTrailingStop /\
                  IF long THEN currentPrice <= position.trailingStop
                          ELSE currentPrice >= position.trailingStop
      targetHit == IF long THEN currentPrice >= position.target
                           ELSE currentPrice <= position.target
  IN IF stopHit
     THEN [shouldExit |-> TRUE, exitReason |-> "STOP_LOSS",
           exitPrice |-> IF long THEN position.stopLoss - cfg.slippage
                                 ELSE position.stopLoss + cfg.slippage]
     ELSE IF trailHit
     THEN [shouldExit |-> TRUE, exitReason |-> "STOP_LOSS",
           exitPrice |-> IF long THEN position.trailingStop - cfg.slippage
                                 ELSE position.trailingStop + cfg.slippage]
     ELSE IF targetHit
     THEN [shouldExit |-> TRUE, exitReason |-> "TARGET",
           exitPrice |-> position.target]
     ELSE [shouldExit |-> FALSE, exitReason |-> "SIGNAL",
           exitPrice |-> currentPrice]

\* variant: only one side's commission is deducted
RealizedPnLOneCommission(position, exitPrice, cfg) ==
  IF position.type = "LONG"
  THEN (exitPrice - position.entryPrice) * position.quantity - cfg.commission
  ELSE (position.entryPrice - exitPrice) * position.quantity - cfg.commission

RealizedPnL(position, exitPrice, cfg) ==
  IF position.type = "LONG"
  THEN (exitPrice - position.entryPrice) * position.quantity - cfg.commission * 2
  ELSE (position.entryPrice - exitPrice) * position.quantity - cfg.commission * 2

\* variant: the holding period is left in timestamp units
MakeTradeHoldingInTicks(position, exitDate, exitPrice, exitReason, cfg) ==
  LET pnl == RealizedPnL(position, exitPrice, cfg)
  IN [entryDate |-> position.entryDate,
      exitDate |-> exitDate,
      symbol |-> position.symbol,
      type |-> position.type,
      entryPrice |-> position.entryPrice,
      exitPrice |-> exitPrice,
      quantity |-> position.quantity,
      pnl |-> pnl,
      pnlPercent |-> << pnl * 100, position.entryPrice * position.quantity >>,
      commission |-> cfg.commission * 2,
      exitReason |-> exitReason,
      holdingPeriod |-> << exitDate - position.entryDate, 1 >>]

MakeTrade(position, exitDate, exitPrice, exitReason, cfg) ==
  LET pnl == RealizedPnL(position, exitPrice, cfg)
  IN [entryDate |-> position.entryDate,
      exitDate |-> exitDate,
      symbol |-> position.symbol,
      type |-> position.type,
      entryPrice |-> position.entryPrice,
      exitPrice |-> exitPrice,
      quantity |-> position.quantity,
      pnl |-> pnl,
      pnlPercent |-> << pnl * 100, position.entryPrice * position.quantity >>,
      commission |-> cfg.commission * 2,
      exitReason |-> exitReason,
      holdingPeriod |-> << exitDate - position.entryDate, TicksPerDay >>]

\* variant: the removal takes the last position, not the one at k
SplicePop(s, k) == SubSeq(s, 1, Len(s) - 1)

\* openPositions.splice(k, 1)
Splice(s, k) == [n \in 1..(Len(s) - 1) |-> IF n < k THEN s[n] ELSE s[n + 1]]

\* no training run: the optimizer's state before startTraining
OptimizerIdle ==
  /\ population = << >>
  /\ generation = 0
  /\ candles = << >>
  /\ random = 0
  /\ phase = "idle"
  /\ backtested = {}
  /\ params = << >>
  /\ mutated = << >>

\* no pair of runs
TwinIdle ==
  /\ left = << >>
  /\ right = << >>
  /\ bar = 0

\* nothing of the panel is live
PanelIdle ==
  /\ trainingRef = FALSE
  /\ isTraining = FALSE
  /\ bestStrategy = << >>
  /\ timers = << >>
  /\ log = << >>
  /\ starts = 0

\* the objects are not followed
ObjectsIdle ==
  /\ heap = << >>
  /\ populationRef = 0

\* no run on a series of bars
SeriesIdle ==
  /\ historicalData = << >>
  /\ walk = << >>
  /\ at = 0
  /\ strategy = << >>

\* no call of an indicator function
FunctionsIdle ==
  /\ probe = << >>
  /\ answer = << >>

\* the order service is not followed
ServiceIdle ==
  /\ orders = << >>
  /\ positions = << >>
  /\ fills = << >>
  /\ calls = {}
  /\ results = << >>

Init ==
  /\ contract \in Contracts
  /\ config \in Configs
  /\ len \in (WarmUp - 1)..(WarmUp + MaxBars)
  /\ closes \in [1..Max(len - WarmUp, 0) -> Prices]
  /\ pc = "start"
  /\ i = WarmUp
  /\ j = 0
  /\ openPositions = << >>
  /\ trades = << >>
  /\ equityCurve = << >>
  /\ capital = config.initialCapital
  /\ peakCapital = config.initialCapital
  /\ currentDrawdown = RatZero
  /\ maxDrawdown = RatZero
  /\ prediction = NoPrediction
  /\ scan = NoScan
  /\ metrics = NoMetrics
  /\ OptimizerIdle
  /\ TwinIdle
  /\ PanelIdle
  /\ SeriesIdle
  /\ FunctionsIdle
  /\ ServiceIdle
  /\ ObjectsIdle

\* lines 105-108: the length check
RejectShortSeries ==
  /\ pc = "start"
  /\ len < WarmUp
  /\ pc' = "error"
  /\ UNCHANGED << others, args, metrics, i, j, openPositions, trades, equityCurve, capital,
                  peakCapital, currentDrawdown, maxDrawdown, prediction, scan >>

\* variant: the length test is off by one
AcceptSeriesOffByOne ==
  /\ pc = "start"
  /\ len >= WarmUp - 1
  /\ pc' = "bar"
  /\ UNCHANGED << others, args, metrics, i, j, openPositions, trades, equityCurve, capital,
                  peakCapital, currentDrawdown, maxDrawdown, prediction, scan >>

AcceptSeries ==
  /\ pc = "start"
  /\ len >= WarmUp
  /\ pc' = "bar"
  /\ UNCHANGED << others, args, metrics, i, j, openPositions, trades, equityCurve, capital,
                  peakCapital, currentDrawdown, maxDrawdown, prediction, scan >>

\* line 111: the loop test, and the start of the reverse scan of line 116
BarStart ==
  /\ pc = "bar"
  /\ i < len
  /\ pc' = "exit"
  /\ j' = Len(openPositions)
  /\ scan' = NoScan
  /\ UNCHANGED << others, args, metrics, i, openPositions, trades, equityCurve, capital,
                  peakCapital, currentDrawdown, maxDrawdown, prediction >>

\* lines 117-203: one iteration of the reverse scan over openPositions
ExitCheck ==
  /\ pc = "exit"
  /\ j >= 1
  /\ LET currentPrice == Close(i)
         position == UpdateTrailingStop(openPositions[j], currentPrice, config)
         d == ExitDecision(position, currentPrice, config)
         trade == MakeTrade(position, Timestamp(i), d.exitPrice, d.exitReason, config)
     IN /\ scan' = [position |-> position, shouldExit |-> d.shouldExit,
                     exitReason |-> d.exitReason, exitPrice |-> d.exitPrice]
        /\ IF d.shouldExit
           THEN /\ trades' = Append(trades, trade)
                /\ capital' = capital + trade.pnl
                /\ openPositions' = Splice(openPositions, j)
           ELSE /\ openPositions' = [openPositions EXCEPT ![j] = position]
                /\ UNCHANGED << trades, capital >>
  /\ j' = j - 1
  /\ UNCHANGED << others, args, metrics, pc, i, equityCurve, peakCapital, currentDrawdown,
                  maxDrawdown, prediction >>

\* variant: the capacity test admits a full book (<= for <)
GenerateSignalAtCapacity ==
  /\ pc = "exit"
  /\ j = 0
  /\ IF Len(openPositions) <= config.maxPositions
     THEN /\ \E in \in PredInputs :
               prediction' = generateFuturesPrediction(contract, in[1], in[2])
          /\ pc' = "entry"
     ELSE /\ pc' = "equity"
          /\ UNCHANGED prediction
  /\ UNCHANGED << others, args, metrics, i, j, openPositions, trades, equityCurve, capital,
                  peakCapital, currentDrawdown, maxDrawdown, scan >>

\* lines 206-209: the capacity test and the call of generateFuturesPrediction
GenerateSignal ==
  /\ pc = "exit"
  /\ j = 0
  /\ IF Len(openPositions) < config.maxPositions
     THEN /\ \E in \in PredInputs :
               prediction' = generateFuturesPrediction(contract, in[1], in[2])
          /\ pc' = "entry"
     ELSE /\ pc' = "equity"
          /\ UNCHANGED prediction
  /\ UNCHANGED << others, args, metrics, i, j, openPositions, trades, equityCurve, capital,
                  peakCapital, currentDrawdown, maxDrawdown, scan >>

shouldEnterLong(p) ==
  \/ p.prediction = "STRONG_BUY"
  \/ (p.prediction = "BUY" /\ p.confidence > ConfidenceFloor)

shouldEnterShort(p) ==
  \/ p.prediction = "STRONG_SELL"
  \/ (p.prediction = "SELL" /\ p.confidence > ConfidenceFloor)

\* variant: the floor of one lot is missing
PositionQuantityNoMinimum(cap, currentPrice, p, c, cfg) ==
  LET riskNum == cap * cfg.riskPerTrade
      stopDistance == Abs(currentPrice - p.stopLoss)
      lotSize == c.lotSize
      maxQuantity == cfg.positionSize * lotSize
  IN IF stopDistance * lotSize = 0
     THEN IF riskNum = 0 THEN NaN
          ELSE IF riskNum > 0 THEN maxQuantity
          ELSE Min(lotSize, maxQuantity)
     ELSE Min((riskNum \div (100 * stopDistance * lotSize)) * lotSize, maxQuantity)

\* lines 221-228: the risk-based quantity; NaN when 0 / 0 is formed
PositionQuantity(cap, currentPrice, p, c, cfg) ==
  LET riskNum == cap * cfg.riskPerTrade          \* riskAmount * 100
      stopDistance == Abs(currentPrice - p.stopLoss)
      lotSize == c.lotSize
      maxQuantity == cfg.positionSize * lotSize
  IN IF stopDistance * lotSize = 0
     THEN IF riskNum = 0 THEN NaN
          ELSE IF riskNum > 0 THEN maxQuantity
          ELSE Min(lotSize, maxQuantity)
     ELSE Min(Max((riskNum \div (100 * stopDistance * lotSize)) * lotSize, lotSize),
              maxQuantity)

\* line 230
RequiredMargin(quantity, c) == (c.marginRequired * quantity) \div c.lotSize

\* variant: the 20% buffer is missing
HasCapitalNoBuffer(cap, quantity, c) ==
  /\ quantity # NaN
  /\ cap > RequiredMargin(quantity, c)

\* line 233: capital > requiredMargin * 1.2
HasCapital(cap, quantity, c) ==
  /\ quantity # NaN
  /\ 10 * cap > 12 * RequiredMargin(quantity, c)

\* variant: the slippage is added for either direction
NewPositionSlippageAdded(currentDate, currentPrice, quantity, p, c, cfg) ==
  LET long == shouldEnterLong(p)
      entryPrice == currentPrice + cfg.slippage
  IN [entryDate |-> currentDate,
      symbol |-> c.symbol,
      type |-> IF long THEN "LONG" ELSE "SHORT",
      entryPrice |-> entryPrice,
      quantity |-> quantity,
      stopLoss |-> p.stopLoss,
      target |-> p.targetPrice,
      trailingStop |-> IF long
                       THEN (entryPrice * (1000 - cfg.trailingStopPercent)) \div 1000
                       ELSE (entryPrice * (1000 + cfg.trailingStopPercent)) \div 1000]

\* lines 234-249
NewPosition(currentDate, currentPrice, quantity, p, c, cfg) ==
  LET long == shouldEnterLong(p)
      entryPrice == IF long THEN currentPrice + cfg.slippage
                            ELSE currentPrice - cfg.slippage
  IN [entryDate |-> currentDate,
      symbol |-> c.symbol,
      type |-> IF long THEN "LONG" ELSE "SHORT",
      entryPrice |-> entryPrice,
      quantity |-> quantity,
      stopLoss |-> p.stopLoss,
      target |-> p.targetPrice,
      trailingStop |-> IF long
                       THEN (entryPrice * (1000 - cfg.trailingStopPercent)) \div 1000
                       ELSE (entryPrice * (1000 + cfg.trailingStopPercent)) \div 1000]

\* variant: one signal fills every free slot of the book
EntryFillsCapacity ==
  /\ pc = "entry"
  /\ LET currentPrice == Close(i)
         quantity == PositionQuantity(capital, currentPrice, prediction, contract, config)
         position == NewPosition(Timestamp(i), currentPrice, quantity,
                                 prediction, contract, config)
         free == config.maxPositions - Len(openPositions)
     IN IF /\ (shouldEnterLong(prediction) \/ shouldEnterShort(prediction))
           /\ HasCapital(capital, quantity, contract)
        THEN /\ openPositions' = openPositions \o [n \in 1..free |-> position]
             /\ capital' = capital - free * config.commission
        ELSE UNCHANGED << openPositions, capital >>
  /\ pc' = "equity"
  /\ UNCHANGED << others, args, metrics, i, j, trades, equityCurve, peakCapital,
                  currentDrawdown, maxDrawdown, prediction, scan >>

\* lines 211-253: the entry decision
Entry ==
  /\ pc = "entry"
  /\ LET currentPrice == Close(i)
         quantity == PositionQuantity(capital, currentPrice, prediction, contract, config)
     IN IF /\ (shouldEnterLong(prediction) \/ shouldEnterShort(prediction))
           /\ HasCapital(capital, quantity, contract)
        THEN /\ openPositions' =
                  Append(openPositions,
                         NewPosition(Timestamp(i), currentPrice, quantity,
                                     prediction, contract, config))
             /\ capital' = capital - config.commission
        ELSE UNCHANGED << openPositions, capital >>
  /\ pc' = "equity"
  /\ UNCHANGED << others, args, metrics, i, j, trades, equityCurve, peakCapital,
                  currentDrawdown, maxDrawdown, prediction, scan >>

RECURSIVE TotalUnrealizedPnL(_, _)
TotalUnrealizedPnL(open, currentPrice) ==
  IF open = << >> THEN 0
  ELSE UnrealizedPnL(Head(open), currentPrice)
       + TotalUnrealizedPnL(Tail(open), currentPrice)

Equity(cap, open, currentPrice) ==
  cap + TotalUnrealizedPnL(open, currentPrice)

\* variant: the peak is not raised before the drawdown is taken
NewPeakStale(peak, equity) == peak

\* lines 267-269
NewPeak(peak, equity) == IF equity > peak THEN equity ELSE peak

\* line 271: ((peakCapital - equity) / peakCapital) * 100
Drawdown(peak, equity) == << (peak - equity) * 100, peak >>

ShouldSample(k, n) == k % SampleEvery = 0 \/ k = n - 1

\* lines 256-282: mark to market, peak, drawdown, sampling, i++
UpdateEquity ==
  /\ pc = "equity"
  /\ LET equity == Equity(capital, openPositions, Close(i))
         peak == NewPeak(peakCapital, equity)
         dd == Drawdown(peak, equity)
     IN /\ peakCapital' = peak
        /\ currentDrawdown' = dd
        /\ maxDrawdown' = RatMax(maxDrawdown, dd)
        /\ equityCurve' =
             IF ShouldSample(i, len)
             THEN Append(equityCurve,
                         [date |-> Timestamp(i), equity |-> equity, drawdown |-> dd])
             ELSE equityCurve
  /\ i' = i + 1
  /\ pc' = "bar"
  /\ UNCHANGED << others, args, metrics, j, openPositions, trades, capital, prediction, scan >>

RECURSIVE TotalPnL(_)
TotalPnL(ts) == IF ts = << >> THEN 0 ELSE Head(ts).pnl + TotalPnL(Tail(ts))

\* ------------------------------------------------ calculateBacktestMetrics
\* line 356: the profit factor of a ledger without losses
ProfitFactorSentinel == 999

RatEq(a, b) == a[1] * b[2] = b[1] * a[2]

\* the trades of ts with a profit, and those with a loss
Wins(ts) == SelectSeq(ts, LAMBDA t : t.pnl > 0)
Losses(ts) == SelectSeq(ts, LAMBDA t : t.pnl < 0)

\* variant: no sentinel, a ledger without losses has the profit factor 0
ProfitFactorNoSentinel(totalWins, totalLosses) ==
  IF totalLosses > 0 THEN << totalWins, totalLosses >> ELSE RatZero

\* line 356, a ratio
ProfitFactor(totalWins, totalLosses) ==
  IF totalLosses > 0
  THEN << totalWins, totalLosses >>
  ELSE IF totalWins > 0 THEN << ProfitFactorSentinel, 1 >> ELSE RatZero

\* variant: the total is the sum over the ledger
TotalPnLOfLedger(ts, finalCapital, initialCapital) == TotalPnL(ts)

\* line 344
MetricsTotalPnL(ts, finalCapital, initialCapital) == finalCapital - initialCapital

\* lines 333-398; the ratios are <<numerator, denominator>>.  Sharpe ratio,
\* expectancy, average holding period, recovery and Calmar ratio are
\* computed from the same arguments and are left out.
calculateBacktestMetrics(ts, finalCapital, initialCapital, maxDD) ==
  LET totalTrades == Len(ts)
      winningTrades == Len(Wins(ts))
      losingTrades == Len(Losses(ts))
      totalPnL == MetricsTotalPnL(ts, finalCapital, initialCapital)
      totalWins == TotalPnL(Wins(ts))
      totalLosses == Abs(TotalPnL(Losses(ts)))
  IN [totalTrades |-> totalTrades,
      winningTrades |-> winningTrades,
      losingTrades |-> losingTrades,
      winRate |-> IF totalTrades > 0
                  THEN << winningTrades * 100, totalTrades >> ELSE RatZero,
      totalPnL |-> totalPnL,
      totalPnLPercent |-> << totalPnL * 100, initialCapital >>,
      averageWin |-> IF winningTrades > 0
                     THEN << totalWins, winningTrades >> ELSE RatZero,
      averageLoss |-> IF losingTrades > 0
                      THEN << totalLosses, losingTrades >> ELSE RatZero,
      profitFactor |-> ProfitFactor(totalWins, totalLosses),
      maxDrawdown |-> maxDD]

\* variant: the final close fills like a stop, with slippage
CloseRemainingWithSlippage ==
  /\ pc = "bar"
  /\ i >= len
  /\ LET finalPrice == Close(len - 1)
         finalDate == Timestamp(len - 1)
         closed == [n \in 1..Len(openPositions) |->
                      MakeTrade(openPositions[n], finalDate,
                                IF openPositions[n].type = "LONG"
                                THEN finalPrice - config.slippage
                                ELSE finalPrice + config.slippage,
                                "END_OF_DATA", config)]
     IN /\ trades' = trades \o closed
        /\ capital' = capital + TotalPnL(closed)
        /\ metrics' = calculateBacktestMetrics(trades \o closed,
                                               capital + TotalPnL(closed),
                                               config.initialCapital,
                                               maxDrawdown)
  /\ pc' = ReturnResult(len)
  /\ UNCHANGED << others, args, i, j, openPositions, equityCurve, peakCapital,
                  currentDrawdown, maxDrawdown, prediction, scan >>

\* lines 284-329: force-close what is still open, compute the metrics and
\* build the result, which reads the timestamp of bar 200
CloseRemaining ==
  /\ pc = "bar"
  /\ i >= len
  /\ LET finalPrice == Close(len - 1)
         finalDate == Timestamp(len - 1)
         closed == [n \in 1..Len(openPositions) |->
                      MakeTrade(openPositions[n], finalDate, finalPrice,
                                "END_OF_DATA", config)]
     IN /\ trades' = trades \o closed
        /\ capital' = capital + TotalPnL(closed)
        /\ metrics' = calculateBacktestMetrics(trades \o closed,
                                               capital + TotalPnL(closed),
                                               config.initialCapital,
                                               maxDrawdown)
  /\ pc' = ReturnResult(len)
  /\ UNCHANGED << others, args, i, j, openPositions, equityCurve, peakCapital,
                  currentDrawdown, maxDrawdown, prediction, scan >>

Next ==
  \/ RejectShortSeries
  \/ AcceptSeries
  \/ BarStart
  \/ ExitCheck
  \/ GenerateSignal
  \/ Entry
  \/ UpdateEquity
  \/ CloseRemaining

Spec == Init /\ [][Next]_vars

\* ======================================================================
\* The genetic optimizer (geneticOptimizer.ts) and backtestStrategy
\* (mlTraining.ts)
\*
\* Numbers.  A balance is kept in units of 1/BalanceScale, so that every
\* product balance * (1 + (exit - entry) / entry) over closes that are
\* powers of two is a whole number of units, as it is exact in doubles.  A
\* profit percentage (and a fitness) is kept in units of 1/PercentScale
\* percent, an accuracy in units of 1/AccuracyScale percent, a volume
\* threshold or ratio in units of 1/VolumeScale.  The double NaN is the
\* value NaN: arithmetic on it gives NaN and every comparison with it is
\* false.
\* ======================================================================
POPULATION_SIZE == 20
MUTATION_RATE == << 1, 10 >>
InitialBalance == 10000
LowAccuracy == 40
LowAccuracyPenalty == 50
FewTrades == 5
FewTradesPenalty == 20
TournamentTop == 10

BalanceScale == 64
PercentScale == (BalanceScale * InitialBalance) \div 100
AccuracyScale == 2520

\* Math.random(): a call returns random / RandMod, a number of [0, 1), and
\* moves the generator to NextRandom(random)
RandMod == 65537
NextRandom(r) == (75 * r + 74) % RandMod
Seeds == {1, 12345, 23456, 40000, 54321, 65000}

VolumeScale == 10 * RandMod

\* variant: the minimum is not added to the integer drawn
randomIntFromZero(r, min, max) == (r * (max - min + 1)) \div RandMod

\* randomInt(min, max) and randomFloat(min, max) on the draw r; the float
\* bounds are given in tenths and the result is in units of 1/VolumeScale
randomInt(r, min, max) == (r * (max - min + 1)) \div RandMod + min
randomFloat(r, min10, max10) == r * (max10 - min10) + min10 * RandMod

DEFAULT_PARAMS ==
  [rsiPeriod |-> 14, rsiOverbought |-> 70, rsiOversold |-> 30,
   macdFast |-> 12, macdSlow |-> 26, macdSignal |-> 9,
   smaFastPeriod |-> 20, smaSlowPeriod |-> 50, volatilityPeriod |-> 20,
   volumeThreshold |-> 15 * RandMod]

\* the genes in the order generateRandomStrategy, crossover and mutate
\* visit them, and the range each is drawn from
Genes ==
  << "rsiPeriod", "rsiOverbought", "rsiOversold", "macdFast", "macdSlow",
     "macdSignal", "smaFastPeriod", "smaSlowPeriod", "volatilityPeriod",
     "volumeThreshold" >>

GeneRange ==
  [rsiPeriod |-> << 5, 30 >>, rsiOverbought |-> << 60, 90 >>,
   rsiOversold |-> << 10, 40 >>, macdFast |-> << 5, 20 >>,
   macdSlow |-> << 21, 50 >>, macdSignal |-> << 5, 15 >>,
   smaFastPeriod |-> << 5, 50 >>, smaSlowPeriod |-> << 51, 200 >>,
   volatilityPeriod |-> << 10, 50 >>, volumeThreshold |-> << 11, 30 >>]

RandomGene(g, r) ==
  IF g = "volumeThreshold"
  THEN randomFloat(r, GeneRange[g][1], GeneRange[g][2])
  ELSE randomInt(r, GeneRange[g][1], GeneRange[g][2])

\* a function result together with the state it leaves Math.random in
Drawn(value, r) == [value |-> value, random |-> r]

RECURSIVE RandomGenes(_, _, _)
RandomGenes(k, p, r) ==
  IF k > Len(Genes)
  THEN Drawn(p, r)
  ELSE RandomGenes(k + 1, [p EXCEPT ![Genes[k]] = RandomGene(Genes[k], r)],
                   NextRandom(r))

generateRandomStrategy(r) == RandomGenes(1, DEFAULT_PARAMS, r)

\* variant: a new individual carries the placeholder fitness -1
UnevaluatedPlaceholder(p) ==
  [params |-> p, fitness |-> -1, accuracy |-> 0, profit |-> 0]

\* an individual that has not been evaluated
Unevaluated(p) == [params |-> p, fitness |-> 0, accuracy |-> 0, profit |-> 0]

RECURSIVE CreateLoop(_, _, _)
CreateLoop(k, pop, r) ==
  IF k < POPULATION_SIZE
  THEN LET s == generateRandomStrategy(r)
       IN CreateLoop(k + 1, Append(pop, Unevaluated(s.value)), s.random)
  ELSE Drawn(pop, r)

\* variant: the baseline is a random strategy as well
createInitialPopulationAllRandom(r) ==
  LET s == generateRandomStrategy(r)
  IN CreateLoop(1, << Unevaluated(s.value) >>, s.random)

createInitialPopulation(r) ==
  CreateLoop(1, << Unevaluated(DEFAULT_PARAMS) >>, r)

RECURSIVE CrossGenes(_, _, _, _, _)
CrossGenes(k, child, parent1, parent2, r) ==
  IF k > Len(Genes)
  THEN Drawn(child, r)
  ELSE LET g == Genes[k]
           gene == IF 2 * r > RandMod THEN parent1[g] ELSE parent2[g]
       IN CrossGenes(k + 1, [child EXCEPT ![g] = gene], parent1, parent2,
                     NextRandom(r))

crossover(parent1, parent2, r) == CrossGenes(1, parent1, parent1, parent2, r)

\* lines 101-110: each gene is redrawn with probability MUTATION_RATE
RECURSIVE MutateGenes(_, _, _)
MutateGenes(k, p, r) ==
  IF k > Len(Genes)
  THEN Drawn(p, r)
  ELSE IF r * MUTATION_RATE[2] < MUTATION_RATE[1] * RandMod
       THEN MutateGenes(k + 1,
                        [p EXCEPT ![Genes[k]] = RandomGene(Genes[k], NextRandom(r))],
                        NextRandom(NextRandom(r)))
       ELSE MutateGenes(k + 1, p, NextRandom(r))

\* variant: the MACD pair is not repaired
RepairSmaOnly(p) ==
  IF p.smaFastPeriod >= p.smaSlowPeriod
  THEN [p EXCEPT !.smaFastPeriod = p.smaSlowPeriod \div 2]
  ELSE p

\* lines 112-118: the logical constraints
Repair(p) ==
  LET a == IF p.smaFastPeriod >= p.smaSlowPeriod
           THEN [p EXCEPT !.smaFastPeriod = p.smaSlowPeriod \div 2]
           ELSE p
  IN IF a.macdFast >= a.macdSlow
     THEN [a EXCEPT !.macdFast = a.macdSlow \div 2]
     ELSE a

mutate(p, r) ==
  LET m == MutateGenes(1, p, r)
  IN Drawn(Repair(m.value), m.random)

\* ------------------------------------------------------------ the candles
\* comparisons of doubles: false whenever an operand is NaN
FLess(a, b) == a # NaN /\ b # NaN /\ a < b
FSub(a, b) == IF a = NaN THEN NaN ELSE a - b

\* A candle is kept together with the features extractFeatures derives
\* from the series up to and including it (the indicator arithmetic is not
\* modelled: the features are inputs, the same for every parameter set).
\* calculateMACD sets the signal line to 0.9 * macd.
Candle(close, rsi, m, fast, slow, volume10, change) ==
  [close |-> close, rsi |-> rsi, macd |-> 10 * m, macdSignal |-> 9 * m,
   smaFast |-> fast, smaSlow |-> slow, volumeRatio |-> volume10 * RandMod,
   priceChange |-> change]

Quiet(close) == Candle(close, 50, 0, 1, 1, 10, 0)
Up(close)    == Candle(close, 50, 1, 2, 1, 10, 1)
Down(close)  == Candle(close, 50, -1, 1, 2, 10, -1)
\* bullish for the parameter sets with rsiOversold above rsi
Dip(close, rsi) == Candle(close, rsi, 1, 1, 1, 20, -1)
\* bearish for the parameter sets with rsiOverbought below rsi
Peak(close, rsi) == Candle(close, rsi, -1, 1, 1, 20, 1)
\* a row whose close did not parse (parseFloat gives NaN): the averages
\* over it are NaN, the RSI of the first rsiPeriod + 1 closes is not
Unparsed ==
  [close |-> NaN, rsi |-> 50, macd |-> NaN, macdSignal |-> NaN,
   smaFast |-> NaN, smaSlow |-> NaN, volumeRatio |-> 10 * RandMod,
   priceChange |-> NaN]

\* a series of length candles whose last Len(tail) are tail and whose
\* earlier ones are quiet
Series(length, tail) == [length |-> length, tail |-> tail]

\* candles[k], k counted from 0
CandleAt(c, k) ==
  IF k < 0 \/ k >= c.length
  THEN Undefined
  ELSE IF k < c.length - Len(c.tail)
       THEN Quiet(8)
       ELSE c.tail[k - (c.length - Len(c.tail)) + 1]

\* two wins, two losses and a flat trade: balance 10000 again
Choppy ==
  << Up(8), Down(16), Up(16), Down(8), Up(8), Down(16), Up(16), Down(8),
     Up(8), Down(8) >>
\* five winning trades
Rising ==
  << Up(8), Down(16), Up(8), Down(16), Up(8), Down(16), Up(8), Down(16),
     Up(8), Down(16) >>
\* five losing trades
Falling ==
  << Up(16), Down(8), Up(16), Down(8), Up(16), Down(8), Up(16), Down(8),
     Up(16), Down(8) >>
\* signals that depend on the RSI thresholds
Swing ==
  << Dip(8, 25), Peak(16, 75), Dip(16, 25), Down(8), Up(8), Peak(16, 75),
     Dip(8, 25), Peak(8, 75), Up(16), Quiet(8) >>
\* one more winning trade for the parameter sets with rsiOversold above 36
Split == << Dip(8, 36), Down(16) >> \o Choppy
\* a position entered on the last parsed row, the final close unparsed
Broken == << Up(8), Down(16), Up(16), Unparsed >>

CandleSeries ==
  { Series(150, Choppy), Series(150, Rising), Series(150, Falling),
    Series(150, Swing), Series(150, Split), Series(60, Swing),
    Series(70, Broken), Series(50, << >>) }

\* extractFeatures(candles.slice(0, k + 1), p)
extractFeatures(c, k, p) == CandleAt(c, k)

\* generateSignal: the scores are kept doubled (2, 2, 1.5, 1 and the floor 3)
bullishScore(features, p) ==
    (IF FLess(features.rsi, p.rsiOversold) THEN 4 ELSE 0)
  + (IF FLess(features.macdSignal, features.macd) THEN 4 ELSE 0)
  + (IF FLess(features.smaSlow, features.smaFast) THEN 3 ELSE 0)
  + (IF FLess(p.volumeThreshold, features.volumeRatio)
        /\ FLess(0, features.priceChange) THEN 2 ELSE 0)

bearishScore(features, p) ==
    (IF FLess(p.rsiOverbought, features.rsi) THEN 4 ELSE 0)
  + (IF FLess(features.macd, features.macdSignal) THEN 4 ELSE 0)
  + (IF FLess(features.smaFast, features.smaSlow) THEN 3 ELSE 0)
  + (IF FLess(p.volumeThreshold, features.volumeRatio)
        /\ FLess(features.priceChange, 0) THEN 2 ELSE 0)

\* variant: a winning score that equals the floor is enough
generateSignalAtFloor(features, p) ==
  LET bullish == bullishScore(features, p)
      bearish == bearishScore(features, p)
  IN [signal |-> IF bullish > bearish /\ bullish >= 6
                 THEN "BUY"
                 ELSE IF bearish > bullish /\ bearish >= 6
                      THEN "SELL"
                      ELSE "HOLD"]

\* lines 198-203
generateSignal(features, p) ==
  LET bullish == bullishScore(features, p)
      bearish == bearishScore(features, p)
  IN [signal |-> IF bullish > bearish /\ bullish > 6
                 THEN "BUY"
                 ELSE IF bearish > bullish /\ bearish > 6
                      THEN "SELL"
                      ELSE "HOLD"]

\* ------------------------------------------------------- backtestStrategy
\* the bookkeeping of a closed trade, in the loop and at the final close
ClosePosition(st, currentPrice) ==
  LET nan == currentPrice = NaN \/ st.entryPrice = NaN
  IN [st EXCEPT
        !.balance = IF nan \/ st.balance = NaN
                    THEN NaN
                    ELSE (st.balance * currentPrice) \div st.entryPrice,
        !.wins = IF FLess(st.entryPrice, currentPrice) THEN @ + 1 ELSE @,
        !.totalTrades = @ + 1]

\* variant: a BUY signal enters whether or not a position is held
BacktestStepReenters(c, p, k, st) ==
  LET signal == generateSignal(extractFeatures(c, k, p), p).signal
      currentPrice == CandleAt(c, k).close
  IN IF signal = "BUY"
     THEN [st EXCEPT !.position = 1, !.entryPrice = currentPrice]
     ELSE IF signal = "SELL" /\ st.position = 1
          THEN [ClosePosition(st, currentPrice) EXCEPT !.position = 0]
          ELSE st

\* lines 219-233: the body of the loop at candle k
BacktestStep(c, p, k, st) ==
  LET signal == generateSignal(extractFeatures(c, k, p), p).signal
      currentPrice == CandleAt(c, k).close
  IN IF signal = "BUY" /\ st.position = 0
     THEN [st EXCEPT !.position = 1, !.entryPrice = currentPrice]
     ELSE IF signal = "SELL" /\ st.position = 1
          THEN [ClosePosition(st, currentPrice) EXCEPT !.position = 0]
          ELSE st

\* the loop over the candles lo .. hi in ascending order; the range is
\* halved, and the state after the first half is a value before the second
\* half starts, so that the evaluation is not nested one level per candle
RECURSIVE BacktestLoop(_, _, _, _, _)
BacktestLoop(c, p, lo, hi, st) ==
  IF lo > hi
  THEN st
  ELSE IF lo = hi
       THEN BacktestStep(c, p, lo, st)
       ELSE LET mid == (lo + hi) \div 2
            IN CHOOSE end \in { BacktestLoop(c, p, mid + 1, hi, half) :
                                  half \in {BacktestLoop(c, p, lo, mid, st)} } :
                 TRUE

minDataPoints(p) ==
  Max(Max(p.smaSlowPeriod, p.macdSlow + p.macdSignal), p.rsiPeriod) + 1

\* variant: the final close reads the candle past the end of the series
LastIndexPastEnd(c) == c.length

\* line 237: candles.length - 1
LastIndex(c) == c.length - 1

\* lines 207-211: the locals before the loop
StartLocals ==
  [balance |-> InitialBalance * BalanceScale, position |-> 0,
   entryPrice |-> 0, wins |-> 0, totalTrades |-> 0]

\* lines 235-247: the final close and the result, or TypeError when the
\* final close reads the close of a candle that is not there
FinalClose(c, run) ==
  LET last == CandleAt(c, LastIndex(c))
  IN IF run.position = 1 /\ last = Undefined
     THEN TypeError
     ELSE LET end == IF run.position = 1
                     THEN ClosePosition(run, last.close)
                     ELSE run
          IN [profit |-> FSub(end.balance, InitialBalance * BalanceScale),
              accuracy |-> IF end.totalTrades > 0
                           THEN (end.wins * 100 * AccuracyScale) \div end.totalTrades
                           ELSE 0,
              trades |-> end.totalTrades]

\* lines 206-248
backtestStrategy(c, p) ==
  FinalClose(c, BacktestLoop(c, p, minDataPoints(p), c.length - 1, StartLocals))

\* ----------------------------------------------------- evaluatePopulation
\* variant: every individual is backtested
NeedsBacktestAlways(ind) == TRUE

\* line 58: an individual is skipped when its fitness is not 0
NeedsBacktest(ind) == ind.fitness = 0

\* variant: the low-accuracy penalty is applied below 50 percent
FitnessLowAccuracyBelow50(result) ==
  LET accuracyPenalty == IF result.accuracy < 50 * AccuracyScale
                         THEN LowAccuracyPenalty * PercentScale ELSE 0
      tradesPenalty == IF result.trades < FewTrades
                       THEN FewTradesPenalty * PercentScale ELSE 0
  IN FSub(FSub(result.profit, accuracyPenalty), tradesPenalty)

\* lines 65-71: the fitness of a backtest result
Fitness(result) ==
  LET accuracyPenalty == IF result.accuracy < LowAccuracy * AccuracyScale
                         THEN LowAccuracyPenalty * PercentScale ELSE 0
      tradesPenalty == IF result.trades < FewTrades
                       THEN FewTradesPenalty * PercentScale ELSE 0
  IN FSub(FSub(result.profit, accuracyPenalty), tradesPenalty)

\* lines 56-78: the function population.map applies
Evaluated(ind, c) ==
  IF ~NeedsBacktest(ind)
  THEN ind
  ELSE CHOOSE out \in
         { IF result = TypeError
           THEN TypeError
           ELSE [ind EXCEPT !.fitness = Fitness(result),
                            !.accuracy = result.accuracy,
                            !.profit = result.profit] :
             result \in {backtestStrategy(c, ind.params)} } : TRUE

\* Array.prototype.sort with (a, b) => b.fitness - a.fitness: a stable
\* insertion sort; a comparator result of NaN is read as 0
RECURSIVE InsertByFitness(_, _)
InsertByFitness(sorted, x) ==
  IF sorted = << >>
  THEN << x >>
  ELSE LET y == sorted[Len(sorted)]
       IN IF FLess(y.fitness, x.fitness)
          THEN Append(InsertByFitness(SubSeq(sorted, 1, Len(sorted) - 1), x), y)
          ELSE Append(sorted, x)

RECURSIVE SortFrom(_, _, _)
SortFrom(k, s, sorted) ==
  IF k > Len(s) THEN sorted ELSE SortFrom(k + 1, s, InsertByFitness(sorted, s[k]))

\* variant: the array is left in the order of the map
SortByFitnessOmitted(s) == s

SortByFitness(s) == SortFrom(1, s, << >>)

\* variant: the comparator is a.fitness - b.fitness, the order ascending
evaluatePopulationAscending(pop, c) ==
  CHOOSE out \in
    { IF \E k \in 1..Len(pop) : mapped[k] = TypeError
      THEN TypeError
      ELSE CHOOSE reversed \in
             { [k \in 1..Len(pop) |-> sorted[Len(pop) + 1 - k]] :
                 sorted \in {SortByFitness(mapped)} } : TRUE :
        mapped \in {[k \in 1..Len(pop) |-> Evaluated(pop[k], c)]} } : TRUE

\* lines 55-80: the sorted population, or the TypeError the map let through
evaluatePopulation(pop, c) ==
  CHOOSE out \in
    { IF \E k \in 1..Len(pop) : mapped[k] = TypeError
      THEN TypeError
      ELSE SortByFitness(mapped) :
        mapped \in {[k \in 1..Len(pop) |-> Evaluated(pop[k], c)]} } : TRUE

\* the individuals of pop evaluatePopulation calls backtestStrategy for
BacktestCalls(pop) == {k \in 1..Len(pop) : NeedsBacktest(pop[k])}

\* ------------------------------------------------------- evolvePopulation
\* variant: only the best individual is carried over
ElitesBestOnly(pop) == << pop[1] >>

\* lines 127-128: elitism
Elites(pop) == << pop[1], pop[2] >>

RECURSIVE EvolveLoop(_, _, _)
EvolveLoop(newPopulation, pop, r) ==
  IF Len(newPopulation) < POPULATION_SIZE
  THEN LET top == Min(TournamentTop, Len(pop) - 1)
           p1 == pop[randomInt(r, 0, top) + 1]
           p2 == pop[randomInt(NextRandom(r), 0, top) + 1]
           x == crossover(p1.params, p2.params, NextRandom(NextRandom(r)))
           m == mutate(x.value, x.random)
       IN EvolveLoop(Append(newPopulation, Unevaluated(m.value)), pop, m.random)
  ELSE Drawn(newPopulation, r)

evolvePopulation(pop, r) == EvolveLoop(Elites(pop), pop, r)

\* ------------------------------------------------------ the training run
MaxGenerations == 3

\* arguments of mutate: parameter sets with positive periods, the fast and
\* slow periods in either order
ParamInputs ==
  { [DEFAULT_PARAMS EXCEPT !.smaFastPeriod = sf, !.smaSlowPeriod = ss,
                           !.macdFast = mf, !.macdSlow = ms] :
      sf \in {5, 50, 120, 200}, ss \in {1, 50, 51, 200},
      mf \in {5, 20, 30, 50}, ms \in {1, 21, 50} }

\* no backtest is running
BacktestIdle ==
  /\ contract = << >>
  /\ config = << >>
  /\ len = 0
  /\ closes = << >>
  /\ pc = "idle"
  /\ i = 0
  /\ j = 0
  /\ openPositions = << >>
  /\ trades = << >>
  /\ equityCurve = << >>
  /\ capital = 0
  /\ peakCapital = 0
  /\ currentDrawdown = RatZero
  /\ maxDrawdown = RatZero
  /\ prediction = NoPrediction
  /\ scan = NoScan
  /\ metrics = NoMetrics

\* startTraining(candles) has set generationRef to 0 and calls
\* runTrainingStep; or mutate is about to be applied to params
InitOptimizer ==
  /\ BacktestIdle
  /\ TwinIdle
  /\ PanelIdle
  /\ SeriesIdle
  /\ FunctionsIdle
  /\ ServiceIdle
  /\ ObjectsIdle
  /\ random \in Seeds
  /\ population = << >>
  /\ generation = 0
  /\ backtested = {}
  /\ mutated = << >>
  /\ \/ /\ phase = "step"
        /\ candles \in CandleSeries
        /\ params = << >>
     \/ /\ phase = "mutate"
        /\ candles = << >>
        /\ params \in ParamInputs

\* runTrainingStep, generation 0: populationRef.current =
\* createInitialPopulation()
CreateInitialPopulation ==
  /\ phase = "step"
  /\ generation = 0
  /\ LET d == createInitialPopulation(random)
     IN /\ population' = d.value
        /\ random' = d.random
  /\ phase' = "evaluate"
  /\ UNCHANGED << backtest, series, functions, service, twin, panel, objects, generation, candles, backtested, params, mutated >>

\* runTrainingStep, later generations: populationRef.current =
\* evolvePopulation(populationRef.current)
EvolvePopulation ==
  /\ phase = "step"
  /\ generation > 0
  /\ generation < MaxGenerations
  /\ LET d == evolvePopulation(population, random)
     IN /\ population' = d.value
        /\ random' = d.random
  /\ phase' = "evaluate"
  /\ UNCHANGED << backtest, series, functions, service, twin, panel, objects, generation, candles, backtested, params, mutated >>

\* runTrainingStep: populationRef.current =
\* evaluatePopulation(populationRef.current, currentCandles), then the
\* generation counter is advanced
EvaluatePopulation ==
  /\ phase = "evaluate"
  /\ population' = evaluatePopulation(population, candles)
  /\ backtested' = BacktestCalls(population)
  /\ generation' = generation + 1
  /\ phase' = "step"
  /\ UNCHANGED << backtest, series, functions, service, twin, panel, objects, candles, random, params, mutated >>

\* mutate(params)
Mutate ==
  /\ phase = "mutate"
  /\ LET m == mutate(params, random)
     IN /\ mutated' = m.value
        /\ random' = m.random
  /\ phase' = "mutated"
  /\ UNCHANGED << backtest, series, functions, service, twin, panel, objects, population, generation, candles, backtested, params >>

NextOptimizer ==
  \/ CreateInitialPopulation
  \/ EvolvePopulation
  \/ EvaluatePopulation
  \/ Mutate

SpecOptimizer == InitOptimizer /\ [][NextOptimizer]_vars

\* ======================================================================
\* Two runs of runFuturesBacktest side by side, on two series and the same
\* contract and configuration, advanced bar by bar.  A run is a record of
\* the function's arguments and locals.
\* ======================================================================
RunStart(cfg, n, cl) ==
  [len |-> n, closes |-> cl, openPositions |-> << >>, trades |-> << >>,
   equityCurve |-> << >>, capital |-> cfg.initialCapital,
   peakCapital |-> cfg.initialCapital, currentDrawdown |-> RatZero,
   maxDrawdown |-> RatZero, prediction |-> NoPrediction]

\* historicalData[k].close of a run
CloseOf(run, k) == IF k < WarmUp THEN WarmUpClose ELSE run.closes[k - WarmUp + 1]

\* variant: the whole series is handed to generateFuturesPrediction
WindowWhole(run, k) == run.closes

\* line 208: historicalData.slice(0, i + 1), the bars generateFuturesPrediction
\* is given at bar k (the warm-up bars, the same in every series, left out)
Window(run, k) == SubSeq(run.closes, 1, k - WarmUp + 1)

\* lines 116-204: the reverse scan over the open positions, from index n down
RECURSIVE ExitScan(_, _, _, _, _)
ExitScan(run, n, currentPrice, currentDate, cfg) ==
  IF n = 0
  THEN run
  ELSE LET position == UpdateTrailingStop(run.openPositions[n], currentPrice, cfg)
           d == ExitDecision(position, currentPrice, cfg)
           trade == MakeTrade(position, currentDate, d.exitPrice, d.exitReason, cfg)
       IN ExitScan(IF d.shouldExit
                   THEN [run EXCEPT !.openPositions = Splice(@, n),
                                    !.trades = Append(@, trade),
                                    !.capital = @ + trade.pnl]
                   ELSE [run EXCEPT !.openPositions[n] = position],
                   n - 1, currentPrice, currentDate, cfg)

\* lines 206-254: the prediction (from its inputs in) and the entry decision
EntryStep(run, in, currentPrice, currentDate, c, cfg) ==
  IF Len(run.openPositions) < cfg.maxPositions
  THEN LET p == generateFuturesPrediction(c, in[1], in[2])
           quantity == PositionQuantity(run.capital, currentPrice, p, c, cfg)
       IN IF /\ (shouldEnterLong(p) \/ shouldEnterShort(p))
             /\ HasCapital(run.capital, quantity, c)
          THEN [run EXCEPT
                  !.prediction = p,
                  !.openPositions =
                     Append(@, NewPosition(currentDate, currentPrice, quantity,
                                           p, c, cfg)),
                  !.capital = @ - cfg.commission]
          ELSE [run EXCEPT !.prediction = p]
  ELSE run

\* lines 256-282: mark to market, peak, drawdown, sampling
EquityStep(run, k, currentPrice, currentDate) ==
  LET equity == Equity(run.capital, run.openPositions, currentPrice)
      peak == NewPeak(run.peakCapital, equity)
      dd == Drawdown(peak, equity)
  IN [run EXCEPT
        !.peakCapital = peak,
        !.currentDrawdown = dd,
        !.maxDrawdown = RatMax(@, dd),
        !.equityCurve =
           IF ShouldSample(k, run.len)
           THEN Append(@, [date |-> currentDate, equity |-> equity,
                           drawdown |-> dd])
           ELSE @]

\* lines 111-282: the body of the loop at bar k
ProcessBar(run, k, in, c, cfg) ==
  LET currentPrice == CloseOf(run, k)
      currentDate == Timestamp(k)
      scanned == ExitScan(run, Len(run.openPositions), currentPrice,
                          currentDate, cfg)
      entered == EntryStep(scanned, in, currentPrice, currentDate, c, cfg)
  IN EquityStep(entered, k, currentPrice, currentDate)

\* the series of both runs are the same on the bars 0 .. k
Agree(k) ==
  /\ k < left.len
  /\ k < right.len
  /\ SubSeq(left.closes, 1, k - WarmUp + 1) = SubSeq(right.closes, 1, k - WarmUp + 1)

AllSeries ==
  UNION { [1..n -> Prices] : n \in 1..MaxBars }

InitTwin ==
  /\ contract \in Contracts
  /\ config \in Configs
  /\ len = 0
  /\ closes = << >>
  /\ pc = "idle"
  /\ i = 0
  /\ j = 0
  /\ openPositions = << >>
  /\ trades = << >>
  /\ equityCurve = << >>
  /\ capital = 0
  /\ peakCapital = 0
  /\ currentDrawdown = RatZero
  /\ maxDrawdown = RatZero
  /\ prediction = NoPrediction
  /\ scan = NoScan
  /\ metrics = NoMetrics
  /\ OptimizerIdle
  /\ PanelIdle
  /\ SeriesIdle
  /\ FunctionsIdle
  /\ ServiceIdle
  /\ ObjectsIdle
  /\ \E a \in AllSeries, b \in AllSeries :
       /\ a[1] = b[1]
       /\ left = RunStart(config, WarmUp + Len(a), a)
       /\ right = RunStart(config, WarmUp + Len(b), b)
  /\ bar = WarmUp

\* both runs process the bar; generateFuturesPrediction is a function of the
\* contract and of the bars it is given, so that its inputs are the same in
\* both runs when the bars are.  The runs are followed while their series
\* are the same up to the bar.
TwinBar ==
  /\ Agree(bar)
  /\ \E inL \in PredInputs, inR \in PredInputs :
       /\ Window(left, bar) = Window(right, bar) => inL = inR
       /\ left' = ProcessBar(left, bar, inL, contract, config)
       /\ right' = ProcessBar(right, bar, inR, contract, config)
  /\ bar' = bar + 1
  /\ UNCHANGED << backtest, series, functions, service, optimizer, panel, objects >>

NextTwin == TwinBar

SpecTwin == InitTwin /\ [][NextTwin]_vars

\* ======================================================================
\* The training panel (MLTrainingPanel): startTraining, stopTraining and
\* the timer callbacks that run runTrainingStep.  A handler runs to its end
\* before the next one starts (runTrainingStep awaits nothing).
\* ======================================================================
\* line 90: the least number of candles startTraining accepts
MinCandles == 50

MaxStarts == 2

\* the candle series handed to startTraining
PanelSeries == { Series(150, Swing), Series(60, Rising), Series(49, << >>) }

\* variant: the step does not look at the flag
StepRunsAlways(flag) == TRUE

\* line 58: if (!trainingRef.current) return
StepRuns(flag) == flag

\* variant: startTraining leaves the generation counter alone
StartGenerationKept(g) == g

\* line 100: generationRef.current = 0
StartGeneration(g) == 0

\* the state runTrainingStep reads and writes
PanelState ==
  [population |-> population, generation |-> generation, random |-> random,
   trainingRef |-> trainingRef, bestStrategy |-> bestStrategy,
   timers |-> timers, log |-> log]

\* lines 57-87: runTrainingStep(currentCandles) from the state st
runTrainingStep(st, currentCandles) ==
  IF ~StepRuns(st.trainingRef)
  THEN st
  ELSE LET made == IF st.generation = 0
                   THEN createInitialPopulation(st.random)
                   ELSE evolvePopulation(st.population, st.random)
           evaluated == evaluatePopulation(made.value, currentCandles)
       IN [st EXCEPT
             !.population = evaluated,
             !.random = made.random,
             !.bestStrategy = evaluated[1],
             !.generation = @ + 1,
             !.timers = Append(@, currentCandles),
             !.log = @ \o << IF st.generation = 0 THEN "create" ELSE "evolve",
                             "evaluate" >>]

\* the state after a handler
Becomes(st) ==
  /\ population' = st.population
  /\ generation' = st.generation
  /\ random' = st.random
  /\ trainingRef' = st.trainingRef
  /\ bestStrategy' = st.bestStrategy
  /\ timers' = st.timers
  /\ log' = st.log

\* the panel after it is mounted
InitPanel ==
  /\ BacktestIdle
  /\ TwinIdle
  /\ PanelIdle
  /\ SeriesIdle
  /\ FunctionsIdle
  /\ ServiceIdle
  /\ ObjectsIdle
  /\ population = << >>
  /\ generation = 0
  /\ candles = << >>
  /\ random \in Seeds
  /\ phase = "idle"
  /\ backtested = {}
  /\ params = << >>
  /\ mutated = << >>

\* lines 117-125 and 89-107: a file of candles is uploaded (the input is
\* disabled while isTraining) and startTraining(c) is called, which calls
\* runTrainingStep(c)
StartTraining ==
  /\ ~isTraining
  /\ starts < MaxStarts
  /\ \E c \in PanelSeries :
       /\ candles' = c
       /\ IF c.length < MinCandles
          THEN UNCHANGED << population, generation, random, panel >>
          ELSE /\ isTraining' = TRUE
               /\ starts' = starts + 1
               /\ Becomes(runTrainingStep(
                    [PanelState EXCEPT !.trainingRef = TRUE,
                                       !.generation = StartGeneration(@),
                                       !.log = << >>], c))
  /\ UNCHANGED << backtest, series, functions, service, twin, objects, phase, backtested, params, mutated >>

\* lines 109-115: the Stop button, shown while isTraining
StopTraining ==
  /\ isTraining
  /\ trainingRef' = FALSE
  /\ isTraining' = FALSE
  /\ UNCHANGED << backtest, series, functions, service, twin, objects, optimizer, bestStrategy, timers, log,
                  starts >>

\* line 86: the earliest pending timer fires and calls
\* runTrainingStep(currentCandles)
TimerFires ==
  /\ timers # << >>
  /\ trainingRef => generation < MaxGenerations
  /\ Becomes(runTrainingStep([PanelState EXCEPT !.timers = Tail(@)],
                             Head(timers)))
  /\ UNCHANGED << backtest, series, functions, service, twin, objects, candles, phase, backtested, params,
                  mutated, isTraining, starts >>

NextPanel ==
  \/ StartTraining
  \/ StopTraining
  \/ TimerFires

SpecPanel == InitPanel /\ [][NextPanel]_vars

\* ======================================================================
\* The optimizer on the heap.  Objects are held in heap, a reference is an
\* index into it: a StrategyParams object is its record, an Individual is
\* [params |-> reference, fitness, accuracy, profit], an array is
\* [items |-> references], the candle array is [candles |-> series].
\* Every function returns the heap it leaves and the reference it returns.
\* ======================================================================
\* the module constant DEFAULT_PARAMS and the candle array of the caller
DefaultParamsRef == 1
CandlesRef == 2

\* a new object; its reference is Len(h) + 1
Alloc(h, obj) == Append(h, obj)

\* array.push(ref)
Push(h, array, ref) == [h EXCEPT ![array].items = Append(@, ref)]

\* the Individual behind a reference, by value
Deref(h, ref) == [h[ref] EXCEPT !.params = h[h[ref].params]]

\* the pop behind an array reference, by value
DerefAll(h, array) ==
  [k \in 1..Len(h[array].items) |-> Deref(h, h[array].items[k])]

\* lines 45-50: one more random individual
CreateOnHeapStep(h, array, r) ==
  LET s == generateRandomStrategy(r)
      hp == Alloc(h, s.value)
      hi == Alloc(hp, Unevaluated(Len(hp)))
  IN [heap |-> Push(hi, array, Len(hi)), random |-> s.random]

\* lines 44-52 of createInitialPopulation
RECURSIVE CreateOnHeapLoop(_, _, _, _)
CreateOnHeapLoop(k, h, array, r) ==
  IF k < POPULATION_SIZE
  THEN CHOOSE end \in { CreateOnHeapLoop(k + 1, st.heap, array, st.random) :
                          st \in {CreateOnHeapStep(h, array, r)} } : TRUE
  ELSE [heap |-> h, result |-> array, random |-> r]

\* lines 34-43: the array, and the baseline whose params IS DEFAULT_PARAMS
createInitialPopulationOnHeap(h, r) ==
  LET array == Len(h) + 1
      ha == Alloc(h, [items |-> << >>])
      hi == Alloc(ha, Unevaluated(DefaultParamsRef))
  IN CreateOnHeapLoop(1, Push(hi, array, Len(hi)), array, r)

\* lines 56-78: population.map; a skipped individual is passed on as it is,
\* an evaluated one is a new object that shares the params of the old one
MapOnHeapStep(k, h, pop, mapped, c) ==
  LET ref == h[pop].items[k]
      ind == h[ref]
  IN IF ~NeedsBacktest(ind)
     THEN Push(h, mapped, ref)
     ELSE CHOOSE hm \in
            { Push(Alloc(h, [ind EXCEPT !.fitness = Fitness(result),
                                        !.accuracy = result.accuracy,
                                        !.profit = result.profit]),
                   mapped, Len(h) + 1) :
                result \in {backtestStrategy(h[c].candles, h[ind.params])} } :
            TRUE

RECURSIVE MapOnHeap(_, _, _, _, _)
MapOnHeap(k, h, pop, mapped, c) ==
  IF k > Len(h[pop].items)
  THEN h
  ELSE CHOOSE end \in { MapOnHeap(k + 1, hm, pop, mapped, c) :
                          hm \in {MapOnHeapStep(k, h, pop, mapped, c)} } : TRUE

\* variant: the array that was passed in is sorted
SortTargetArgument(pop, mapped) == pop

\* line 79: sort is called on the array map returned
SortTarget(pop, mapped) == mapped

\* line 79: the references of an array in the order sort leaves them in
SortItems(h, items) ==
  LET keyed == [k \in 1..Len(items) |->
                  [ref |-> items[k], fitness |-> h[items[k]].fitness]]
      sorted == SortByFitness(keyed)
  IN [k \in 1..Len(items) |-> sorted[k].ref]

\* lines 55-80
evaluatePopulationOnHeap(h, pop, c) ==
  LET mapped == Len(h) + 1
      hm == MapOnHeap(1, Alloc(h, [items |-> << >>]), pop, mapped, c)
      target == SortTarget(pop, mapped)
  IN [heap |-> [hm EXCEPT ![target].items = SortItems(hm, @)],
      result |-> target]

\* lines 131-145: crossover returns a new object, mutate copies it and
\* writes to the copy
EvolveOnHeapStep(h, newPopulation, pop, r) ==
  LET items == h[pop].items
      top == Min(TournamentTop, Len(items) - 1)
      p1 == h[items[randomInt(r, 0, top) + 1]]
      p2 == h[items[randomInt(NextRandom(r), 0, top) + 1]]
  IN CHOOSE st \in
       { [heap |-> Push(Alloc(Alloc(Alloc(h, xm.x.value), xm.m.value),
                              Unevaluated(Len(h) + 2)),
                        newPopulation, Len(h) + 3),
          random |-> xm.m.random] :
           xm \in { [x |-> x, m |-> mutate(x.value, x.random)] :
                      x \in {crossover(h[p1.params], h[p2.params],
                                       NextRandom(NextRandom(r)))} } } : TRUE

RECURSIVE EvolveOnHeapLoop(_, _, _, _)
EvolveOnHeapLoop(h, newPopulation, pop, r) ==
  IF Len(h[newPopulation].items) < POPULATION_SIZE
  THEN CHOOSE end \in
         { EvolveOnHeapLoop(st.heap, newPopulation, pop, st.random) :
             st \in {EvolveOnHeapStep(h, newPopulation, pop, r)} } : TRUE
  ELSE [heap |-> h, result |-> newPopulation, random |-> r]

\* lines 123-148: the elites are pushed as they are
evolvePopulationOnHeap(h, pop, r) ==
  LET newPopulation == Len(h) + 1
      ha == Alloc(h, [items |-> << >>])
      h1 == Push(ha, newPopulation, h[pop].items[1])
      h2 == Push(h1, newPopulation, h[pop].items[2])
  IN EvolveOnHeapLoop(h2, newPopulation, pop, r)

\* a caller holds DEFAULT_PARAMS and a candle array and is about to call
\* createInitialPopulation
InitHeap ==
  /\ BacktestIdle
  /\ TwinIdle
  /\ PanelIdle
  /\ SeriesIdle
  /\ FunctionsIdle
  /\ ServiceIdle
  /\ candles \in CandleSeries
  /\ heap = << DEFAULT_PARAMS, [candles |-> candles] >>
  /\ populationRef = 0
  /\ random \in Seeds
  /\ population = << >>
  /\ generation = 0
  /\ phase = "step"
  /\ backtested = {}
  /\ params = << >>
  /\ mutated = << >>

\* populationRef.current = createInitialPopulation()
CreateOnHeap ==
  /\ phase = "step"
  /\ generation = 0
  /\ LET d == createInitialPopulationOnHeap(heap, random)
     IN /\ heap' = d.heap
        /\ populationRef' = d.result
        /\ random' = d.random
        /\ population' = DerefAll(d.heap, d.result)
  /\ phase' = "evaluate"
  /\ UNCHANGED << backtest, series, functions, service, twin, panel, generation, candles, backtested,
                  params, mutated >>

\* populationRef.current = evolvePopulation(populationRef.current)
EvolveOnHeap ==
  /\ phase = "step"
  /\ generation > 0
  /\ generation < MaxGenerations
  /\ LET d == evolvePopulationOnHeap(heap, populationRef, random)
     IN /\ heap' = d.heap
        /\ populationRef' = d.result
        /\ random' = d.random
        /\ population' = DerefAll(d.heap, d.result)
  /\ phase' = "evaluate"
  /\ UNCHANGED << backtest, series, functions, service, twin, panel, generation, candles, backtested,
                  params, mutated >>

\* populationRef.current = evaluatePopulation(populationRef.current, candles)
EvaluateOnHeap ==
  /\ phase = "evaluate"
  /\ LET d == evaluatePopulationOnHeap(heap, populationRef, CandlesRef)
     IN /\ heap' = d.heap
        /\ populationRef' = d.result
        /\ population' = DerefAll(d.heap, d.result)
  /\ generation' = generation + 1
  /\ phase' = "step"
  /\ UNCHANGED << backtest, series, functions, service, twin, panel, candles, random, backtested, params,
                  mutated >>

NextHeap ==
  \/ CreateOnHeap
  \/ EvolveOnHeap
  \/ EvaluateOnHeap

SpecHeap == InitHeap /\ [][NextHeap]_vars

\* ======================================================================
\* calculateBacktestMetrics on ledgers of its own: every ledger of up to
\* MaxTrades trades with a profit or loss of PnLs
\* ======================================================================
MaxTrades == 3

PnLs == {-2, -1, 0, 1, 999, 1998}

Ledgers == UNION { [1..n -> { [pnl |-> x] : x \in PnLs }] : n \in 0..MaxTrades }

\* runFuturesBacktest is at line 315 with the ledger trades
InitMetrics ==
  /\ contract = << >>
  /\ config \in Configs
  /\ len = 0
  /\ closes = << >>
  /\ pc = "metrics"
  /\ i = 0
  /\ j = 0
  /\ openPositions = << >>
  /\ trades \in Ledgers
  /\ equityCurve = << >>
  /\ capital = config.initialCapital + TotalPnL(trades)
                 - Len(trades) * config.commission
  /\ peakCapital = 0
  /\ currentDrawdown = RatZero
  /\ maxDrawdown = RatZero
  /\ prediction = NoPrediction
  /\ scan = NoScan
  /\ metrics = NoMetrics
  /\ OptimizerIdle
  /\ TwinIdle
  /\ PanelIdle
  /\ SeriesIdle
  /\ FunctionsIdle
  /\ ServiceIdle
  /\ ObjectsIdle

\* line 315
CalculateMetrics ==
  /\ pc = "metrics"
  /\ metrics' = calculateBacktestMetrics(trades, capital, config.initialCapital,
                                         maxDrawdown)
  /\ pc' = "done"
  /\ UNCHANGED << others, args, i, j, openPositions, trades, equityCurve,
                  capital, peakCapital, currentDrawdown, maxDrawdown,
                  prediction, scan >>

NextMetrics == CalculateMetrics

SpecMetrics == InitMetrics /\ [][NextMetrics]_vars

\* ======================================================================
\* Numbers and the indicator functions of mlTraining.ts.
\* The indicator arithmetic is binary floating point, rounded to the
\* nearest number with ties to even after every operation, as the
\* arithmetic of a JavaScript number is.  The significand has Precision
\* bits (53 in a double), a number is held as a whole count of units of
\* 1 / Scale, and the numbers below 2^Precision units are that many units
\* apart (gradual underflow).
\* ======================================================================
Precision == 10
Scale == 4096

\* the whole number n
Num(n) == n * Scale

\* the spacing of the numbers at the magnitude a, at least u: the least
\* power of two with a < 2^Precision * spacing
RECURSIVE Spacing(_, _)
Spacing(a, u) == IF a \div u < 2 ^ Precision THEN u ELSE Spacing(a, 2 * u)

\* the number nearest to q + r / den units, for q >= 0 and 0 <= r < den
RoundMagnitude(q, r, den) ==
  LET u == Spacing(q, 1)
      low == q % u
      down == q - low
      up == IF u = 1
            THEN 2 * r > den \/ (2 * r = den /\ q % 2 = 1)
            ELSE \/ 2 * low > u
                 \/ 2 * low = u /\ (r > 0 \/ (down \div u) % 2 = 1)
  IN IF up THEN down + u ELSE down

\* the number nearest to num / den units, for den > 0
Round(num, den) ==
  IF num >= 0
  THEN RoundMagnitude(num \div den, num % den, den)
  ELSE 0 - RoundMagnitude((0 - num) \div den, (0 - num) % den, den)

Ratio(n, d) == Round(n * Scale, d)

\* a + b, a - b, a * b and a / b (b # 0) of JavaScript; a whole factor or
\* divisor is taken out of the scaling first
Plus(a, b) == Round(a + b, 1)
Minus(a, b) == Round(a - b, 1)
Times(a, b) ==
  IF b % Scale = 0 THEN Round(a * (b \div Scale), 1)
  ELSE IF a % Scale = 0 THEN Round((a \div Scale) * b, 1)
  ELSE Round(a * b, Scale)
Over(a, b) ==
  IF b < 0 THEN IF b % Scale = 0 THEN Round(0 - a, (0 - b) \div Scale)
                ELSE Round((0 - a) * Scale, 0 - b)
  ELSE IF b % Scale = 0 THEN Round(a, b \div Scale)
  ELSE Round(a * Scale, b)

\* the largest k of lo .. hi with k * k <= n
RECURSIVE RootBetween(_, _, _)
RootBetween(n, lo, hi) ==
  IF lo = hi
  THEN lo
  ELSE LET mid == (lo + hi + 1) \div 2
       IN IF mid * mid <= n THEN RootBetween(n, mid, hi)
          ELSE RootBetween(n, lo, mid - 1)

\* Math.sqrt(a) for a >= 0: the number nearest to the square root
SquareRoot(a) ==
  LET n == a * Scale
      k == RootBetween(n, 0, 46340)
      r == IF k * k = n THEN 0 ELSE IF n > k * k + k THEN 3 ELSE 1
  IN RoundMagnitude(k, r, 4)

\* acc + prices[lo] + ... + prices[hi], added one after the other as
\* reduce does; the range is halved and the sum of the first half is a
\* value before the second half starts
RECURSIVE SumFrom(_, _, _, _)
SumFrom(prices, lo, hi, acc) ==
  IF lo > hi
  THEN acc
  ELSE IF lo = hi
       THEN Plus(acc, prices[lo])
       ELSE LET mid == (lo + hi) \div 2
            IN CHOOSE end \in { SumFrom(prices, mid + 1, hi, half) :
                                  half \in {SumFrom(prices, lo, mid, acc)} } :
                 TRUE

\* prices[prices.length - 1] || 0
LastOrZero(prices) == IF prices = << >> THEN 0 ELSE prices[Len(prices)]

\* prices.slice(-period)
Recent(prices, period) ==
  SubSeq(prices, Max(Len(prices) - period, 0) + 1, Len(prices))

\* lines 54-61: the loop over i = k .. period; prices[i] of the source is
\* prices[i + 1] here
RECURSIVE RsiLoop(_, _, _, _, _)
RsiLoop(prices, k, period, gains, losses) ==
  IF k > period
  THEN << gains, losses >>
  ELSE LET change == Minus(prices[k + 1], prices[k])
       IN IF change > 0
          THEN RsiLoop(prices, k + 1, period, Plus(gains, change), losses)
          ELSE RsiLoop(prices, k + 1, period, gains, Plus(losses, Abs(change)))

calculateRSI(prices, period) ==
  IF Len(prices) < period + 1
  THEN Num(50)
  ELSE LET sums == RsiLoop(prices, 1, period, 0, 0)
           avgGain == Over(sums[1], Num(period))
           avgLoss == Over(sums[2], Num(period))
       IN IF avgLoss = 0
          THEN Num(100)
          ELSE LET rs == Over(avgGain, avgLoss)
               IN Minus(Num(100), Over(Num(100), Plus(Num(1), rs)))

\* lines 104-106: the loop over prices[lo] .. prices[hi], halved as SumFrom
RECURSIVE EmaFrom(_, _, _, _, _)
EmaFrom(prices, lo, hi, multiplier, ema) ==
  IF lo > hi
  THEN ema
  ELSE IF lo = hi
       THEN Plus(Times(Minus(prices[lo], ema), multiplier), ema)
       ELSE LET mid == (lo + hi) \div 2
            IN CHOOSE end \in { EmaFrom(prices, mid + 1, hi, multiplier, half) :
                                  half \in {EmaFrom(prices, lo, mid, multiplier, ema)} } :
                 TRUE

calculateEMA(prices, period) ==
  IF Len(prices) < period
  THEN LastOrZero(prices)
  ELSE LET multiplier == Over(Num(2), Num(period + 1))
           first == Over(SumFrom(prices, 1, period, 0), Num(period))
       IN EmaFrom(prices, period + 1, Len(prices), multiplier, first)

calculateSMA(prices, period) ==
  IF Len(prices) < period
  THEN LastOrZero(prices)
  ELSE Over(SumFrom(Recent(prices, period), 1, period, 0), Num(period))

calculateMACD(prices, fastPeriod, slowPeriod, signalPeriod) ==
  IF Len(prices) < slowPeriod
  THEN [macd |-> 0, signal |-> 0]
  ELSE LET emaFast == calculateEMA(prices, fastPeriod)
           emaSlow == calculateEMA(prices, slowPeriod)
           macd == Minus(emaFast, emaSlow)
       IN [macd |-> macd, signal |-> Times(macd, Ratio(9, 10))]

calculateVolatility(prices, period) ==
  IF Len(prices) < period
  THEN 0
  ELSE LET slice == Recent(prices, period)
           mean == Over(SumFrom(slice, 1, period, 0), Num(period))
           squaredDiffs ==
             [k \in 1..period |->
                CHOOSE sq \in { Times(diff, diff) :
                                  diff \in {Minus(slice[k], mean)} } : TRUE]
           variance == Over(SumFrom(squaredDiffs, 1, period, 0), Num(period))
       IN SquareRoot(variance)

\* ----------------------------------------------------------------------
\* Calls of calculateRSI, generateSignal and evaluatePopulation on their own
\* ----------------------------------------------------------------------
MaxPrices == 5
PriceLevels == { Num(1), Num(2), Num(4) }
RsiPeriods == { 1, 2, 3 }

\* the arguments of the calls
RsiCalls ==
  { [fn |-> "calculateRSI", prices |-> prices, period |-> period] :
      prices \in UNION { [1..n -> PriceLevels] : n \in 0..MaxPrices },
      period \in RsiPeriods }

SignalCalls ==
  { [fn |-> "generateSignal", features |-> features, params |-> DEFAULT_PARAMS] :
      features \in
        { Candle(8, rsi, m, sma[1], sma[2], volume10, change) :
            rsi \in {25, 50, 75}, m \in {-1, 0, 1},
            sma \in { <<1, 2>>, <<1, 1>>, <<2, 1>> },
            volume10 \in {10, 20}, change \in {-1, 0, 1} }
        \cup { Unparsed } }

\* series of every length, the empty one and one shorter than the warm-up
\* of every parameter set among them, and populations not yet evaluated
AnySeries ==
  { Series(0, << >>), Series(1, << Up(8) >>), Series(30, Swing),
    Series(50, << >>), Series(70, Broken), Series(150, Choppy) }

EvaluateCalls ==
  { [fn |-> "evaluatePopulation", population |-> createInitialPopulation(r).value,
     candles |-> c] : r \in Seeds, c \in AnySeries }

InitIndicators ==
  /\ probe \in RsiCalls \cup SignalCalls \cup EvaluateCalls
  /\ answer = << >>
  /\ BacktestIdle
  /\ OptimizerIdle
  /\ TwinIdle
  /\ PanelIdle
  /\ ObjectsIdle
  /\ SeriesIdle
  /\ ServiceIdle

CalculateRSI ==
  /\ probe.fn = "calculateRSI"
  /\ answer = << >>
  /\ answer' = << calculateRSI(probe.prices, probe.period) >>
  /\ UNCHANGED << backtest, series, service, optimizer, twin, panel, objects, probe >>

GenerateSignalCall ==
  /\ probe.fn = "generateSignal"
  /\ answer = << >>
  /\ answer' = << generateSignal(probe.features, probe.params) >>
  /\ UNCHANGED << backtest, series, service, optimizer, twin, panel, objects, probe >>

EvaluatePopulationCall ==
  /\ probe.fn = "evaluatePopulation"
  /\ answer = << >>
  /\ answer' = << evaluatePopulation(probe.population, probe.candles) >>
  /\ UNCHANGED << backtest, series, service, optimizer, twin, panel, objects, probe >>

NextIndicators ==
  \/ CalculateRSI
  \/ GenerateSignalCall
  \/ EvaluatePopulationCall

SpecIndicators == InitIndicators /\ [][NextIndicators]_vars

\* ----------------------------------------------------------------------
\* A call of backtestStrategy, one iteration of its loop at a time.  answer
\* holds the locals of the call: the index i of the loop, the balance, the
\* position, the entry price and the counters, and at last the result.
\* ----------------------------------------------------------------------
\* a BUY while long, a SELL while flat, and a position open at the end
Repeats == << Up(8), Up(16), Down(16), Down(8), Up(8) >>

StrategySeries ==
  AnySeries \cup { Series(150, Swing), Series(150, Falling),
                   Series(60, Repeats), Series(51, << Up(8) >>),
                   Series(52, << Up(8) >>) }

\* the default parameters, parameter sets with other thresholds and a
\* longer warm-up, and random ones
StrategyParams ==
  { DEFAULT_PARAMS,
    [DEFAULT_PARAMS EXCEPT !.rsiOversold = 20, !.rsiOverbought = 80],
    [DEFAULT_PARAMS EXCEPT !.smaSlowPeriod = 200] }
  \cup { generateRandomStrategy(r).value : r \in Seeds }

StrategyCalls ==
  { [fn |-> "backtestStrategy", candles |-> c, params |-> p] :
      c \in StrategySeries, p \in StrategyParams }

InitStrategy ==
  /\ probe \in StrategyCalls
  /\ answer = << >>
  /\ BacktestIdle
  /\ OptimizerIdle
  /\ TwinIdle
  /\ PanelIdle
  /\ ObjectsIdle
  /\ SeriesIdle
  /\ ServiceIdle

\* lines 207-216: the locals and the index the loop starts at
StrategyEnter ==
  /\ answer = << >>
  /\ answer' = [at |-> "loop", i |-> minDataPoints(probe.params),
                st |-> StartLocals]
  /\ UNCHANGED << backtest, series, service, optimizer, twin, panel, objects, probe >>

\* lines 216-233: one iteration of the loop
StrategyStep ==
  /\ answer # << >>
  /\ answer.at = "loop"
  /\ answer.i < probe.candles.length
  /\ answer' = [answer EXCEPT
                  !.st = BacktestStep(probe.candles, probe.params, answer.i, @),
                  !.i = @ + 1]
  /\ UNCHANGED << backtest, series, service, optimizer, twin, panel, objects, probe >>

\* lines 235-247: the loop is over; the final close and the return
StrategyReturn ==
  /\ answer # << >>
  /\ answer.at = "loop"
  /\ answer.i >= probe.candles.length
  /\ answer' = [at |-> "returned", i |-> answer.i, st |-> answer.st,
                result |-> FinalClose(probe.candles, answer.st)]
  /\ UNCHANGED << backtest, series, service, optimizer, twin, panel, objects, probe >>

NextStrategy ==
  \/ StrategyEnter
  \/ StrategyStep
  \/ StrategyReturn

SpecStrategy == InitStrategy /\ [][NextStrategy]_vars


\* ======================================================================
\* The indicator functions of futuresPredictions.ts, and runFuturesBacktest
\* and backtestStrategy on series of bars whose indicators are computed.
\* The features generateFuturesPrediction does not read (ema12, ema26,
\* volatility, bollingerWidth, volumeMA, adx, oiTrend) are left out.
\* ======================================================================
\* a price in the units of the ledger (CentUnits to the cent) as a number,
\* and a number in the units of the ledger; the prices and the average true
\* ranges of the series below are multiples of 0.25, which both hold exactly
PriceUnits == 100 * CentUnits
ToNumber(x) == Round(x * Scale, PriceUnits)
ToLedger(a) == (a * PriceUnits) \div Scale

Bar(close, high, low, volume, openInterest) ==
  [close |-> close, high |-> high, low |-> low, volume |-> volume,
   openInterest |-> openInterest]

Column(data, field) == [k \in 1..Len(data) |-> data[k][field]]

calculateATR(highs, lows, prices, period) ==
  IF Len(highs) < period + 1
  THEN 0
  ELSE LET trueRanges ==
             [k \in 1..(Len(highs) - 1) |->
                Max(Max(Minus(highs[k + 1], lows[k + 1]),
                        Abs(Minus(highs[k + 1], prices[k]))),
                    Abs(Minus(lows[k + 1], prices[k])))]
       IN calculateSMA(trueRanges, period)

calculateBollingerBands(prices, period, stdDev) ==
  CHOOSE bands \in
    { [upper |-> Plus(b.sma, Times(Num(stdDev), b.volatility)),
       lower |-> Minus(b.sma, Times(Num(stdDev), b.volatility))] :
        b \in {[sma |-> calculateSMA(prices, period),
                volatility |-> calculateVolatility(prices, period)]} } : TRUE

\* lines 181-189: the loop over the closes prices[lo] .. prices[hi], halved
\* as SumFrom; closes[i] of the source is prices[i + 1] here
RECURSIVE ObvFrom(_, _, _, _, _)
ObvFrom(prices, volumes, lo, hi, obv) ==
  IF lo > hi
  THEN obv
  ELSE IF lo = hi
       THEN IF prices[lo] > prices[lo - 1] THEN Plus(obv, volumes[lo])
            ELSE IF prices[lo] < prices[lo - 1] THEN Minus(obv, volumes[lo])
            ELSE obv
       ELSE LET mid == (lo + hi) \div 2
            IN CHOOSE end \in { ObvFrom(prices, volumes, mid + 1, hi, half) :
                                  half \in {ObvFrom(prices, volumes, lo, mid, obv)} } :
                 TRUE

calculateOBV(prices, volumes) == ObvFrom(prices, volumes, 2, Len(prices), 0)

calculateROC(prices, period) ==
  IF Len(prices) < period + 1
  THEN 0
  ELSE LET current == prices[Len(prices)]
           previous == prices[Len(prices) - period]
       IN Times(Over(Minus(current, previous), previous), Num(100))

\* Math.max(...prices) and Math.min(...prices) of a series that is not empty
Highest(prices) == CHOOSE x \in { prices[k] : k \in 1..Len(prices) } :
                     \A k \in 1..Len(prices) : prices[k] <= x
Lowest(prices) == CHOOSE x \in { prices[k] : k \in 1..Len(prices) } :
                    \A k \in 1..Len(prices) : prices[k] >= x

calculateStochastic(highs, lows, prices, period) ==
  IF Len(prices) < period
  THEN Num(50)
  ELSE LET highest == Highest(Recent(highs, period))
           lowest == Lowest(Recent(lows, period))
           current == prices[Len(prices)]
       IN IF highest = lowest
          THEN Num(50)
          ELSE Times(Over(Minus(current, lowest), Minus(highest, lowest)),
                     Num(100))

calculateWilliamsR(highs, lows, prices, period) ==
  Minus(calculateStochastic(highs, lows, prices, period), Num(100))

calculateTrendStrength(prices, sma50, sma200) ==
  LET currentPrice == prices[Len(prices)]
  IN IF currentPrice > sma50 /\ sma50 > sma200 THEN 100
     ELSE IF currentPrice > sma50 THEN 70
     ELSE IF currentPrice < sma50 /\ sma50 > sma200 THEN 30
     ELSE IF currentPrice < sma50 /\ sma50 < sma200 THEN 0
     ELSE 50

\* the series has two bars or more, and no open interest of 0
calculateAdvancedIndicators(data) ==
  CHOOSE features \in
    { [rsi |-> calculateRSI(in.closes, 14),
       macd |-> in.macd.macd,
       macdSignal |-> in.macd.signal,
       macdHistogram |-> Minus(in.macd.macd, in.macd.signal),
       sma20 |-> calculateSMA(in.closes, 20),
       sma50 |-> in.sma50,
       sma200 |-> in.sma200,
       atr |-> calculateATR(in.highs, in.lows, in.closes, 14),
       bollingerUpper |-> in.bands.upper,
       bollingerLower |-> in.bands.lower,
       volumeRatio |-> IF in.volumeMA > 0
                       THEN Over(LastOrZero(in.volumes), in.volumeMA)
                       ELSE Num(1),
       obv |-> calculateOBV(in.closes, in.volumes),
       roc |-> calculateROC(in.closes, 12),
       stochastic |-> calculateStochastic(in.highs, in.lows, in.closes, 14),
       williamsR |-> calculateWilliamsR(in.highs, in.lows, in.closes, 14),
       trendStrength |-> calculateTrendStrength(in.closes, in.sma50, in.sma200),
       oiChange |-> Times(Over(Minus(in.ois[Len(data)], in.ois[Len(data) - 1]),
                               in.ois[Len(data) - 1]),
                          Num(100))] :
        in \in { [closes |-> cols.closes, highs |-> cols.highs, lows |-> cols.lows,
                  volumes |-> cols.volumes, ois |-> cols.ois,
                  macd |-> calculateMACD(cols.closes, 12, 26, 9),
                  sma50 |-> calculateSMA(cols.closes, 50),
                  sma200 |-> calculateSMA(cols.closes, 200),
                  bands |-> calculateBollingerBands(cols.closes, 20, 2),
                  volumeMA |-> calculateSMA(cols.volumes, 20)] :
                   cols \in {[closes |-> SubSeq(Column(data, "close"), 1, Len(data)),
                              highs |-> SubSeq(Column(data, "high"), 1, Len(data)),
                              lows |-> SubSeq(Column(data, "low"), 1, Len(data)),
                              volumes |-> SubSeq(Column(data, "volume"), 1, Len(data)),
                              ois |-> SubSeq(Column(data, "openInterest"), 1,
                                             Len(data))]} } } : TRUE

Clamp(score) == Max(0, Min(100, score))

calculateTechnicalScore(features, currentPrice) ==
  Clamp(50
    + (IF features.rsi < Num(30) THEN 20
       ELSE IF features.rsi < Num(40) THEN 10
       ELSE IF features.rsi > Num(70) THEN -20
       ELSE IF features.rsi > Num(60) THEN -10
       ELSE 0)
    + (IF features.macdHistogram > 0 /\ features.macd > features.macdSignal
       THEN 15
       ELSE IF features.macdHistogram < 0 /\ features.macd < features.macdSignal
       THEN -15
       ELSE 0)
    + (IF currentPrice > features.sma20 /\ features.sma20 > features.sma50
       THEN 15
       ELSE IF currentPrice < features.sma20 /\ features.sma20 < features.sma50
       THEN -15
       ELSE 0)
    + (IF currentPrice <= features.bollingerLower THEN 10
       ELSE IF currentPrice >= features.bollingerUpper THEN -10
       ELSE 0))

calculateMomentumScore(features) ==
  Clamp(50
    + (IF features.stochastic < Num(20) THEN 20
       ELSE IF features.stochastic > Num(80) THEN -20
       ELSE 0)
    + (IF features.roc > Num(5) THEN 15
       ELSE IF features.roc < Num(-5) THEN -15
       ELSE 0)
    + (IF features.williamsR < Num(-80) THEN 15
       ELSE IF features.williamsR > Num(-20) THEN -15
       ELSE 0))

calculateVolumeScore(features, c) ==
  Clamp(50
    + (IF features.volumeRatio > Ratio(3, 2) THEN 20
       ELSE IF features.volumeRatio < Ratio(7, 10) THEN -10
       ELSE 0)
    + (IF features.obv > 0 THEN 15
       ELSE IF features.obv < 0 THEN -15
       ELSE 0)
    + (IF features.oiChange > Num(5) /\ c.change > 0 THEN 15
       ELSE IF features.oiChange > Num(5) /\ c.change < 0 THEN -15
       ELSE 0))

\* lines 296-301: the composite score in tenths.  The four scores are whole
\* multiples of 5, so that the weighted sum is a multiple of 0.25; it is
\* taken exactly and cut to tenths, which keeps every comparison with the
\* whole thresholds and every rounding at .5
CompositeScore(features, c) ==
  ( calculateTechnicalScore(features, ToNumber(c.lastPrice)) * 35
  + calculateMomentumScore(features) * 25
  + calculateVolumeScore(features, c) * 20
  + features.trendStrength * 20 ) \div 10

\* what generateFuturesPrediction(c, data) hands to its decision part:
\* the composite score and the average true range
PredictionInputs(c, data) ==
  CHOOSE in \in
    { << CompositeScore(features, c), ToLedger(features.atr) >> :
        features \in {calculateAdvancedIndicators(data)} } : TRUE

\* ------------------------------------------------------------ the series
MaxSeriesBars == 3
RisingBars == 300
\* prices of flat series: numbers of Precision bits
FlatPrices == { Num(256), Num(258), Num(268), Num(300), Num(384) }
Volume == Num(100)

FlatSeries(price, n) == [k \in 1..n |-> Bar(price, price, price, Volume, Volume)]

\* 300 daily bars, the closes 100, 101, ..., the high and the low of a bar
\* spread above and below its close
RisingSeries(spread) ==
  [k \in 1..RisingBars |->
     Bar(Num(99 + k), Num(99 + k + spread), Num(99 + k - spread), Volume, Volume)]

\* the contract of a series: the last price is the latest close
ContractOf(data, lotSize, change) ==
  [symbol |-> "NIFTY", lotSize |-> lotSize,
   marginRequired |-> 10000 * PriceUnits,
   lastPrice |-> ToLedger(data[Len(data)].close), change |-> change]

\* lines 22-32, money in the units of the ledger and trailingStopPercent in
\* tenths of a percent
DEFAULT_BACKTEST_CONFIG ==
  [initialCapital |-> 100000 * PriceUnits, positionSize |-> 1,
   maxPositions |-> 3, riskPerTrade |-> 2, useStopLoss |-> TRUE,
   useTrailingStop |-> TRUE, trailingStopPercent |-> 15,
   commission |-> 20 * PriceUnits, slippage |-> PriceUnits \div 2]

\* the candles of backtestStrategy with the features extractFeatures derives
\* from the bars up to each (lines 132-159); the close is handed to the
\* balance arithmetic in halves
TrainingFeatures(data, k, p) ==
  CHOOSE candle \in
    { [close |-> (2 * in.closes[k]) \div Scale,
       rsi |-> calculateRSI(in.closes, p.rsiPeriod),
       macd |-> in.macd.macd,
       macdSignal |-> in.macd.signal,
       smaFast |-> calculateSMA(in.closes, p.smaFastPeriod),
       smaSlow |-> calculateSMA(in.closes, p.smaSlowPeriod),
       volumeRatio |-> IF in.avgVolume > 0
                       THEN Over(LastOrZero(in.volumes), in.avgVolume)
                       ELSE Num(1),
       priceChange |-> IF k > 1
                       THEN Times(Over(Minus(in.closes[k], in.closes[1]),
                                       in.closes[1]), Num(100))
                       ELSE 0] :
        in \in { [closes |-> cols.closes, volumes |-> cols.volumes,
                  macd |-> calculateMACD(cols.closes, p.macdFast, p.macdSlow,
                                         p.macdSignal),
                  avgVolume |-> Over(SumFrom(cols.volumes, 1, k, 0), Num(k))] :
                   cols \in {[closes |-> SubSeq(Column(data, "close"), 1, k),
                              volumes |-> SubSeq(Column(data, "volume"), 1, k)]} } } :
      TRUE

Featured(data, p) ==
  Series(Len(data), SubSeq([k \in 1..Len(data) |-> TrainingFeatures(data, k, p)],
                           1, Len(data)))

\* the thresholds of a parameter set as numbers
InNumbers(p) ==
  [p EXCEPT !.rsiOverbought = Num(@), !.rsiOversold = Num(@),
            !.volumeThreshold = Ratio(@ \div RandMod, 10)]

NoStrategy == << >>

\* a run on a flat series of 201 bars or more or on the rising series, or a
\* call of backtestStrategy on a flat series of 52 candles or more
InitSeries ==
  /\ \/ /\ \E price \in FlatPrices, n \in 1..MaxSeriesBars, lotSize \in {1, 50} :
             /\ historicalData = FlatSeries(price, WarmUp + n)
             /\ contract = ContractOf(historicalData, lotSize, 1)
        /\ at = WarmUp
     \/ /\ \E spread \in {0, 1}, change \in {-1, 1} :
             /\ historicalData = RisingSeries(spread)
             /\ contract = ContractOf(historicalData, 50, change)
        /\ at = WarmUp
     \/ /\ \E price \in FlatPrices, n \in 1..MaxSeriesBars :
             historicalData = FlatSeries(price, minDataPoints(DEFAULT_PARAMS) + n)
        /\ contract = << >>
        /\ at = -1
  /\ config = IF at = WarmUp THEN DEFAULT_BACKTEST_CONFIG ELSE << >>
  /\ walk = IF at = WarmUp
            THEN RunStart(config, Len(historicalData),
                          [k \in 1..(Len(historicalData) - WarmUp) |->
                             ToLedger(historicalData[WarmUp + k].close)])
            ELSE << >>
  /\ strategy = NoStrategy
  /\ len = 0
  /\ closes = << >>
  /\ pc = "idle"
  /\ i = 0
  /\ j = 0
  /\ openPositions = << >>
  /\ trades = << >>
  /\ equityCurve = << >>
  /\ capital = 0
  /\ peakCapital = 0
  /\ currentDrawdown = RatZero
  /\ maxDrawdown = RatZero
  /\ prediction = NoPrediction
  /\ scan = NoScan
  /\ metrics = NoMetrics
  /\ OptimizerIdle
  /\ TwinIdle
  /\ PanelIdle
  /\ ObjectsIdle
  /\ FunctionsIdle
  /\ ServiceIdle

\* lines 111-282: the run processes the bar at
WalkBar ==
  /\ at >= WarmUp
  /\ at < walk.len
  /\ \E in \in {PredictionInputs(contract, SubSeq(historicalData, 1, at + 1))} :
       walk' = ProcessBar(walk, at, in, contract, config)
  /\ at' = at + 1
  /\ UNCHANGED << backtest, optimizer, twin, panel, objects, functions, service,
                  historicalData, strategy >>

\* lines 284-315: what is still open is closed at the last close, and the
\* metrics are computed
WalkEnd ==
  /\ at >= WarmUp
  /\ at = walk.len
  /\ metrics = NoMetrics
  /\ LET finalPrice == CloseOf(walk, walk.len - 1)
         finalDate == Timestamp(walk.len - 1)
         closed == [n \in 1..Len(walk.openPositions) |->
                      MakeTrade(walk.openPositions[n], finalDate, finalPrice,
                                "END_OF_DATA", config)]
     IN /\ walk' = [walk EXCEPT !.trades = @ \o closed,
                                !.capital = @ + TotalPnL(closed)]
        /\ metrics' = calculateBacktestMetrics(walk.trades \o closed,
                                               walk.capital + TotalPnL(closed),
                                               config.initialCapital,
                                               walk.maxDrawdown)
  /\ UNCHANGED << optimizer, twin, panel, objects, functions, service, historicalData,
                  at, strategy, contract, config, len, closes, pc, i, j,
                  openPositions, trades, equityCurve, capital, peakCapital,
                  currentDrawdown, maxDrawdown, prediction, scan >>

\* backtestStrategy(candles, DEFAULT_PARAMS) on the bars
BacktestStrategyCall ==
  /\ at = -1
  /\ strategy = NoStrategy
  /\ strategy' = << backtestStrategy(Featured(historicalData, DEFAULT_PARAMS),
                                     InNumbers(DEFAULT_PARAMS)) >>
  /\ UNCHANGED << backtest, optimizer, twin, panel, objects, functions, service,
                  historicalData, walk, at >>

NextSeries ==
  \/ WalkBar
  \/ WalkEnd
  \/ BacktestStrategyCall

SpecSeries == InitSeries /\ [][NextSeries]_vars

\* ======================================================================
\* The order service (FuturesAPIService of futuresAPI.ts): placeOrder,
\* cancelOrder and the fill timer.  A call waits in simulateDelay and is
\* resumed later; placeOrder then schedules the fill of its order.  An
\* order is the record of its symbol, type, quantity, price, status and
\* fillPrice; a position is the record of its symbol, quantity and
\* entryPrice, the entry price a ratio <<numerator, denominator>>.  The
\* fields of a position that are read off the contract (currentPrice, pnl,
\* pnlPercent, margin) and the timestamps are left out.
\* ======================================================================
MaxOrders == 2

\* lines 87-195: the symbols of this.contracts
ContractSymbols ==
  { "NIFTY-FUT", "BANKNIFTY-FUT", "FINNIFTY-FUT", "RELIANCE-FUT", "TCS-FUT" }

\* the arguments of placeOrder: a symbol with a contract or without one
OrderInputs ==
  { [symbol |-> s, type |-> t, quantity |-> 50, price |-> p] :
      s \in {"NIFTY-FUT", "GOLD-FUT"}, t \in {"BUY", "SELL"}, p \in {100, 104} }

NoFillPrice == 0

\* the calls made so far, resumed or not
CallsOf(fn) == {c \in calls : c.fn = fn}

\* this.positions.find((p) => p.symbol === symbol): its index, 0 for none
FindPosition(ps, symbol) ==
  IF \E k \in 1..Len(ps) : ps[k].symbol = symbol
  THEN CHOOSE k \in 1..Len(ps) :
         /\ ps[k].symbol = symbol
         /\ \A m \in 1..(k - 1) : ps[m].symbol # symbol
  ELSE 0

\* lines 301-332: this.positions after the fill of order
updatePosition(ps, order) ==
  LET k == FindPosition(ps, order.symbol)
  IN IF order.symbol \notin ContractSymbols
     THEN ps
     ELSE IF k # 0
     THEN IF order.type = "BUY"
          THEN LET quantity == ps[k].quantity + order.quantity
               IN [ps EXCEPT ![k] =
                     [@ EXCEPT !.quantity = quantity,
                               !.entryPrice =
                                 << @[1] * quantity
                                      + order.price * order.quantity * @[2],
                                    @[2] * (quantity + order.quantity) >>]]
          ELSE [ps EXCEPT ![k].quantity = @ - order.quantity]
     ELSE Append(ps, [symbol |-> order.symbol,
                      quantity |-> IF order.type = "BUY"
                                   THEN order.quantity
                                   ELSE 0 - order.quantity,
                      entryPrice |-> << order.price, 1 >>])

\* this.orders.find((o) => o.orderId === orderId): its index, 0 for none;
\* the id of an order is its index
FindOrder(os, orderId) == IF orderId \in 1..Len(os) THEN orderId ELSE 0

\* line 360: order && order.status === "PENDING"
Cancellable(os, k) == k # 0 /\ os[k].status = "PENDING"

\* a fresh service
InitService ==
  /\ BacktestIdle
  /\ OptimizerIdle
  /\ TwinIdle
  /\ PanelIdle
  /\ ObjectsIdle
  /\ SeriesIdle
  /\ FunctionsIdle
  /\ ServiceIdle

\* line 280: placeOrder(order) is called and waits
PlaceOrderCalled ==
  /\ Len(orders) + Cardinality(CallsOf("placeOrder")) < MaxOrders
  /\ \E order \in OrderInputs :
       /\ [fn |-> "placeOrder", order |-> order] \notin calls
       /\ calls' = calls \cup {[fn |-> "placeOrder", order |-> order]}
  /\ UNCHANGED << backtest, optimizer, twin, panel, objects, series, functions,
                  orders, positions, fills, results >>

\* lines 282-297: the call is resumed: the order is PENDING, its fill is
\* scheduled and it is pushed to this.orders
PlaceOrderResumed ==
  /\ \E c \in CallsOf("placeOrder") :
       /\ orders' = Append(orders, [symbol |-> c.order.symbol,
                                    type |-> c.order.type,
                                    quantity |-> c.order.quantity,
                                    price |-> c.order.price,
                                    status |-> "PENDING",
                                    fillPrice |-> NoFillPrice])
       /\ fills' = Append(fills, Len(orders) + 1)
       /\ calls' = calls \ {c}
  /\ UNCHANGED << backtest, optimizer, twin, panel, objects, series, functions,
                  positions, results >>

\* lines 290-294: the earliest fill timer fires and fills the order it was
\* set for, whatever the status of the order is by then
FillTimerFires ==
  /\ fills # << >>
  /\ LET k == Head(fills)
         filled == [orders[k] EXCEPT !.status = "FILLED",
                                     !.fillPrice = orders[k].price]
     IN /\ orders' = [orders EXCEPT ![k] = filled]
        /\ positions' = updatePosition(positions, filled)
  /\ fills' = Tail(fills)
  /\ UNCHANGED << backtest, optimizer, twin, panel, objects, series, functions,
                  calls, results >>

\* line 357: cancelOrder(orderId) is called and waits; the id is the one of
\* an order placed or to be placed, or of none
CancelOrderCalled ==
  /\ Len(results) + Cardinality(CallsOf("cancelOrder")) < MaxOrders
  /\ \E orderId \in 1..(MaxOrders + 1) :
       /\ [fn |-> "cancelOrder", orderId |-> orderId] \notin calls
       /\ calls' = calls \cup {[fn |-> "cancelOrder", orderId |-> orderId]}
  /\ UNCHANGED << backtest, optimizer, twin, panel, objects, series, functions,
                  orders, positions, fills, results >>

\* lines 358-365: the call is resumed
CancelOrderResumed ==
  /\ \E c \in CallsOf("cancelOrder") :
       LET k == FindOrder(orders, c.orderId)
       IN /\ IF Cancellable(orders, k)
             THEN /\ orders' = [orders EXCEPT ![k].status = "CANCELLED"]
                  /\ results' = Append(results, [orderId |-> c.orderId,
                                                 returned |-> TRUE])
             ELSE /\ orders' = orders
                  /\ results' = Append(results, [orderId |-> c.orderId,
                                                 returned |-> FALSE])
          /\ calls' = calls \ {c}
  /\ UNCHANGED << backtest, optimizer, twin, panel, objects, series, functions,
                  positions, fills >>

NextService ==
  \/ PlaceOrderCalled
  \/ PlaceOrderResumed
  \/ FillTimerFires
  \/ CancelOrderCalled
  \/ CancelOrderResumed

SpecService == InitService /\ [][NextService]_vars

\* ======================================================================
\* Properties of runFuturesBacktest
\* ======================================================================
InLoop(t) == t.exitReason # "END_OF_DATA"
BarOf(date) == date \div TicksPerDay

\* number of positions opened at the bar with timestamp date
OpenedAt(date) ==
  Cardinality({n \in 1..Len(openPositions) : openPositions[n].entryDate = date})
  + Cardinality({n \in 1..Len(trades) :
                   trades[n].entryDate = date /\ InLoop(trades[n])})

\* C1: at every bar and for every open position the exit conditions are
\* tested in the order fixed stop, trailing stop, target, and the first that
\* matches decides: a stop exit fills at the stop moved by the slippage
\* against the position, a target exit fills at the target, a bar on which a
\* stop and the target both match is a stop exit, and with no match the
\* position stays open.
C1_ExitPrecedence ==
  [][ (pc = "exit" /\ j >= 1) =>
        LET pos == scan'.position
            p == Close(i)
            long == pos.type = "LONG"
            Breached(level) == IF long THEN p <= level ELSE p >= level
            Adverse(level) == IF long THEN level - config.slippage
                                      ELSE level + config.slippage
            fixedStop == config.useStopLoss /\ Breached(pos.stopLoss)
            trailing == config.useTrailingStop /\ Breached(pos.trailingStop)
            target == IF long THEN p >= pos.target ELSE p <= pos.target
            t == trades'[Len(trades')]
            closed == /\ Len(trades') = Len(trades) + 1
                      /\ Len(openPositions') = Len(openPositions) - 1
                      /\ t.entryDate = pos.entryDate
                      /\ t.exitDate = Timestamp(i)
            kept == /\ trades' = trades
                    /\ Len(openPositions') = Len(openPositions)
                    /\ openPositions'[j] = pos
        IN /\ pos.entryDate = openPositions[j].entryDate
           /\ pos.type = openPositions[j].type
           /\ fixedStop =>
                closed /\ t.exitReason = "STOP_LOSS"
                       /\ t.exitPrice = Adverse(pos.stopLoss)
           /\ (~fixedStop /\ trailing) =>
                closed /\ t.exitReason = "STOP_LOSS"
                       /\ t.exitPrice = Adverse(pos.trailingStop)
           /\ (~fixedStop /\ ~trailing /\ target) =>
                closed /\ t.exitReason = "TARGET" /\ t.exitPrice = pos.target
           /\ (~fixedStop /\ ~trailing /\ ~target) => kept ]_vars

\* a bar on which a stop and the target both matched closed the position
\* as a stop exit
C1_Witness ==
  /\ pc = "exit"
  /\ scan.position.type # "NONE"
  /\ scan.shouldExit
  /\ scan.exitReason = "STOP_LOSS"
  /\ IF scan.position.type = "LONG" THEN Close(i) >= scan.position.target
                                    ELSE Close(i) <= scan.position.target
  /\ Len(trades) > 0
  /\ trades[Len(trades)].entryDate = scan.position.entryDate
  /\ trades[Len(trades)].exitReason = "STOP_LOSS"

\* C2: every bar first exit-checks the positions that are open and then
\* makes at most one entry: at most one position is opened per bar, and a
\* position opened at bar i is not exit-checked or closed at bar i, only at
\* a later bar or by the END_OF_DATA close.
C2_ExitsBeforeEntry ==
  /\ \A k \in WarmUp..(len - 1) : OpenedAt(Timestamp(k)) <= 1
  /\ pc = "exit" => \A n \in 1..Len(openPositions) :
                      openPositions[n].entryDate < Timestamp(i)
  /\ scan.position.type # "NONE" => scan.position.entryDate < Timestamp(i)
  /\ \A n \in 1..Len(trades) :
       InLoop(trades[n]) => trades[n].exitDate > trades[n].entryDate

\* a bar closed one position and then opened another
C2_Witness ==
  \E n \in 1..Len(trades), m \in 1..Len(openPositions) :
    /\ InLoop(trades[n])
    /\ openPositions[m].entryDate = trades[n].exitDate

\* C3: the number of open positions never exceeds config.maxPositions, and
\* an entry signal is evaluated only when, after the exits of the bar, the
\* number is strictly below maxPositions.
C3_Capacity ==
  /\ Len(openPositions) <= config.maxPositions
  /\ pc = "entry" => Len(openPositions) < config.maxPositions

\* a bar that ended with a full book without evaluating a signal
C3_Witness ==
  /\ pc = "equity"
  /\ Len(openPositions) = config.maxPositions
  /\ \A n \in 1..Len(openPositions) : openPositions[n].entryDate < Timestamp(i)

\* C4: over the life of an open position its trailing stop never loosens
\* (non-decreasing for a LONG, non-increasing for a SHORT); it changes only
\* in the exit scan of a bar where useTrailingStop is set and the position's
\* unrealized P&L at the close is strictly positive.
C4_Ratchet(a, b) ==
  /\ a.type = "LONG" => b.trailingStop >= a.trailingStop
  /\ a.type = "SHORT" => b.trailingStop <= a.trailingStop
  /\ b.trailingStop # a.trailingStop =>
       /\ config.useTrailingStop
       /\ pc = "exit" /\ j >= 1
       /\ a.entryDate = openPositions[j].entryDate
       /\ IF a.type = "LONG" THEN Close(i) > a.entryPrice
                             ELSE Close(i) < a.entryPrice

C4_TrailingStopNeverLoosens ==
  [][ /\ \A m \in 1..Len(openPositions), n \in 1..Len(openPositions') :
           openPositions[m].entryDate = openPositions'[n].entryDate
             => C4_Ratchet(openPositions[m], openPositions'[n])
      /\ (pc = "exit" /\ j >= 1) => C4_Ratchet(openPositions[j], scan'.position)
    ]_vars

\* a LONG position in profit whose stop was ratcheted on an earlier bar and
\* held above the level the current close alone would give
C4_Witness ==
  /\ pc = "equity"
  /\ \E n \in 1..Len(openPositions) :
       LET pos == openPositions[n]
       IN /\ pos.type = "LONG"
          /\ pos.entryDate < Timestamp(i)
          /\ Close(i) > pos.entryPrice
          /\ pos.trailingStop >
               (pos.entryPrice * (1000 - config.trailingStopPercent)) \div 1000
          /\ pos.trailingStop >
               (Close(i) * (1000 - config.trailingStopPercent)) \div 1000

\* C5: when the run finishes every position still open after the last bar
\* has been closed into a Trade with exitReason END_OF_DATA, exitPrice the
\* final bar's close and exitDate the final bar's timestamp; none is left
\* unrecorded.
C5_EndOfDataClose ==
  pc = "done" =>
    /\ \A n \in 1..Len(openPositions) :
         \E m \in 1..Len(trades) :
           /\ trades[m].entryDate = openPositions[n].entryDate
           /\ trades[m].type = openPositions[n].type
           /\ trades[m].entryPrice = openPositions[n].entryPrice
           /\ trades[m].quantity = openPositions[n].quantity
           /\ trades[m].exitReason = "END_OF_DATA"
           /\ trades[m].exitPrice = Close(len - 1)
           /\ trades[m].exitDate = Timestamp(len - 1)
    /\ Cardinality({m \in 1..Len(trades) : trades[m].exitReason = "END_OF_DATA"})
         = Len(openPositions)

\* a finished run that force-closed two positions, a LONG one among them
C5_Witness ==
  /\ pc = "done"
  /\ Len(openPositions) = 2
  /\ \E n \in 1..Len(openPositions) : openPositions[n].type = "LONG"

\* C6: for every Trade, pnl = (exitPrice - entryPrice) * quantity
\* - 2 * commission for a LONG and (entryPrice - exitPrice) * quantity
\* - 2 * commission for a SHORT, pnlPercent = pnl / (entryPrice * quantity)
\* * 100 and the commission field is 2 * config.commission, for in-loop
\* exits and END_OF_DATA closes alike.
C6_TradePnL ==
  \A n \in 1..Len(trades) :
    LET t == trades[n]
        gross == IF t.type = "LONG" THEN (t.exitPrice - t.entryPrice) * t.quantity
                                    ELSE (t.entryPrice - t.exitPrice) * t.quantity
    IN /\ t.pnl = gross - 2 * config.commission
       /\ t.pnlPercent[2] = t.entryPrice * t.quantity
       /\ t.pnlPercent[1] = t.pnl * 100
       /\ t.commission = 2 * config.commission

\* a ledger with a commission-paying in-loop exit and an END_OF_DATA close,
\* one LONG and one SHORT
C6_Witness ==
  /\ config.commission > 0
  /\ \E n \in 1..Len(trades), m \in 1..Len(trades) :
       /\ InLoop(trades[n])
       /\ ~InLoop(trades[m])
       /\ trades[n].type # trades[m].type

\* C7: every position opened has a quantity that is a whole multiple of
\* contract.lotSize, at least one lot and at most config.positionSize lots,
\* whatever the capital, the risk percentage and the stop distance (zero
\* included).
C7_QuantityOk(q) ==
  /\ q % contract.lotSize = 0
  /\ q >= contract.lotSize
  /\ q <= config.positionSize * contract.lotSize

C7_QuantityInLots ==
  /\ \A n \in 1..Len(openPositions) : C7_QuantityOk(openPositions[n].quantity)
  /\ \A n \in 1..Len(trades) : C7_QuantityOk(trades[n].quantity)

\* a position opened at a bar whose close equals the predicted stop (stop
\* distance zero), next to one sized down to the single-lot minimum
C7_Witness ==
  \E n \in 1..Len(openPositions), m \in 1..Len(openPositions) :
    /\ Close(BarOf(openPositions[n].entryDate)) = openPositions[n].stopLoss
    /\ openPositions[n].quantity = config.positionSize * contract.lotSize
    /\ openPositions[m].quantity = contract.lotSize
    /\ config.positionSize > 1

\* C8: when an entry signal fires but capital does not strictly exceed
\* 1.2 * requiredMargin of the sized position, the bar makes no entry and
\* raises no error: no position, no commission, capital and ledger
\* unchanged, and the run goes on.
C8_Signal ==
  \/ prediction.prediction \in {"STRONG_BUY", "STRONG_SELL"}
  \/ (prediction.prediction \in {"BUY", "SELL"} /\ prediction.confidence > 70)

C8_Shortfall ==
  LET q == PositionQuantity(capital, Close(i), prediction, contract, config)
  IN \/ q = NaN
     \/ 10 * capital <= 12 * ((contract.marginRequired * q) \div contract.lotSize)

C8_ShortfallSkipsEntry ==
  [][ (pc = "entry" /\ C8_Signal /\ C8_Shortfall) =>
        /\ openPositions' = openPositions
        /\ capital' = capital
        /\ trades' = trades
        /\ equityCurve' = equityCurve
        /\ pc' = "equity" ]_vars

\* a bar whose signal fired and whose sized position did not fit the
\* capital: the bar goes on to the equity update without an entry
C8_Witness ==
  /\ pc = "equity"
  /\ C8_Signal
  /\ PositionQuantity(capital, Close(i), prediction, contract, config) # NaN
  /\ C8_Shortfall
  /\ capital > 0
  /\ \A n \in 1..Len(openPositions) : openPositions[n].entryDate < Timestamp(i)

\* C9: on every entry at a bar with close p the new position's entryPrice
\* is p + slippage for a LONG and p - slippage for a SHORT, it is LONG
\* exactly when the prediction is STRONG_BUY or BUY with confidence > 70 and
\* SHORT exactly when it is STRONG_SELL or SELL with confidence > 70, and
\* capital drops by exactly one config.commission.
C9_EntryFill ==
  [][ pc = "entry" =>
        LET long == \/ prediction.prediction = "STRONG_BUY"
                    \/ (prediction.prediction = "BUY" /\ prediction.confidence > 70)
            short == \/ prediction.prediction = "STRONG_SELL"
                     \/ (prediction.prediction = "SELL" /\ prediction.confidence > 70)
            added == Len(openPositions') = Len(openPositions) + 1
            pos == openPositions'[Len(openPositions')]
        IN IF added
           THEN /\ pos.type \in {"LONG", "SHORT"}
                /\ pos.type = "LONG" <=> long
                /\ pos.type = "SHORT" <=> short
                /\ pos.type = "LONG" => pos.entryPrice = Close(i) + config.slippage
                /\ pos.type = "SHORT" => pos.entryPrice = Close(i) - config.slippage
                /\ pos.entryDate = Timestamp(i)
                /\ capital' = capital - config.commission
                /\ \A n \in 1..Len(openPositions) : openPositions'[n] = openPositions[n]
           ELSE /\ openPositions' = openPositions
                /\ capital' = capital ]_vars

\* a SHORT entry on a SELL call of confidence 71, filled below the close
C9_Witness ==
  /\ pc = "equity"
  /\ prediction.prediction = "SELL"
  /\ prediction.confidence = 71
  /\ config.slippage > 0 /\ config.commission > 0
  /\ Len(openPositions) > 0
  /\ openPositions[Len(openPositions)].entryDate = Timestamp(i)
  /\ openPositions[Len(openPositions)].type = "SHORT"
  /\ openPositions[Len(openPositions)].entryPrice < Close(i)

\* C10: the running drawdown is >= 0 and is 0 on every bar whose equity
\* reaches or exceeds the previous peak; the peak never decreases;
\* maxDrawdown never decreases and is >= every drawdown sampled into the
\* equity curve.
C10_Drawdown ==
  [][ /\ currentDrawdown'[1] >= 0 /\ currentDrawdown'[2] > 0
      /\ peakCapital' >= peakCapital
      /\ RatLeq(maxDrawdown, maxDrawdown')
      /\ RatLeq(currentDrawdown', maxDrawdown')
      /\ \A n \in 1..Len(equityCurve') :
           /\ equityCurve'[n].drawdown[1] >= 0
           /\ RatLeq(equityCurve'[n].drawdown, maxDrawdown')
      /\ (pc = "equity" /\ Equity(capital, openPositions, Close(i)) >= peakCapital)
           => currentDrawdown'[1] = 0
      /\ (pc = "equity" /\ Equity(capital, openPositions, Close(i)) < peakCapital)
           => currentDrawdown'[1] > 0
    ]_vars

\* a run that sampled a positive drawdown and later set a new equity peak
C10_Witness ==
  /\ pc = "bar"
  /\ peakCapital > config.initialCapital
  /\ currentDrawdown[1] = 0
  /\ maxDrawdown[1] > 0
  /\ \E n \in 1..Len(equityCurve) : equityCurve[n].drawdown[1] > 0

\* C11: for every Trade of the ledger (timestamps strictly ascending),
\* exitDate >= entryDate and holdingPeriod = (exitDate - entryDate) /
\* 86400000, the number of days between the two.
C11_HoldingPeriod ==
  \A n \in 1..Len(trades) :
    LET t == trades[n]
    IN /\ t.exitDate >= t.entryDate
       /\ t.holdingPeriod[2] > 0
       /\ t.holdingPeriod[1] * TicksPerDay
            = (t.exitDate - t.entryDate) * t.holdingPeriod[2]

\* a ledger with a trade closed on the bar it was opened (holding period 0)
\* and a trade held for a fractional number of days
C11_Witness ==
  \E n \in 1..Len(trades), m \in 1..Len(trades) :
    /\ trades[n].exitDate = trades[n].entryDate
    /\ (trades[m].exitDate - trades[m].entryDate) % TicksPerDay # 0

\* C12: a series shorter than the warm-up minimum of 200 bars fails with an
\* error before any bar is processed: no trade, no equity sample, no result.
C12_ShortSeriesRejected ==
  /\ len < WarmUp =>
       /\ pc \in {"start", "error"}
       /\ trades = << >>
       /\ equityCurve = << >>
       /\ openPositions = << >>
       /\ i = WarmUp
       /\ capital = config.initialCapital
  /\ pc = "error" => len < WarmUp

\* the rejected run
C12_Witness ==
  /\ pc = "error"
  /\ len = WarmUp - 1

\* C13: the backtest has no look-ahead: when two series are the same on the
\* bars 0 .. i and the contract and the configuration are the same, the two
\* runs have after bar i the same open positions, the same closed trades
\* (entry and exit decisions), the same capital and the same signal, whatever
\* the series hold after bar i and however long they are.
C13_NoLookAhead ==
  (bar > WarmUp /\ Agree(bar - 1)) =>
     /\ left.openPositions = right.openPositions
     /\ left.trades = right.trades
     /\ left.capital = right.capital
     /\ left.prediction = right.prediction

\* two bars processed on series that differ afterwards: a position was
\* closed and another one is open
C13_Witness ==
  /\ bar = WarmUp + 2
  /\ Agree(bar - 1)
  /\ left.closes # right.closes
  /\ left.len # right.len
  /\ left.trades # << >>
  /\ left.openPositions # << >>

\* ======================================================================
\* Properties of the genetic optimizer
\* ======================================================================
\* the steps of a training run
CreateStep == phase = "step" /\ generation = 0 /\ phase' = "evaluate"
EvolveStep == phase = "step" /\ generation > 0 /\ phase' = "evaluate"
EvaluateStep == phase = "evaluate" /\ phase' = "step"

\* C14: evolvePopulation returns exactly POPULATION_SIZE (20) individuals,
\* and the individuals at result indices 0 and 1 equal, by value, the
\* individuals at indices 0 and 1 of its input.
C14_EvolveKeepsElites ==
  [][ EvolveStep =>
        /\ Len(population') = 20
        /\ population'[1] = population[1]
        /\ population'[2] = population[2] ]_vars

\* an evolved population whose two elites are different evaluated
\* individuals and whose other members are new
C14_Witness ==
  /\ phase = "evaluate"
  /\ generation > 0
  /\ population[1] # population[2]
  /\ population[1].fitness # 0
  /\ population[2].fitness # 0
  /\ \E k \in 3..Len(population) :
       /\ population[k].params # population[1].params
       /\ population[k].params # population[2].params

\* a >= b on doubles: false whenever an operand is NaN
FGeq(a, b) == a # NaN /\ b # NaN /\ a >= b

\* C15: the population evaluatePopulation returns is sorted by fitness in
\* descending order (every element's fitness >= the next one's), has as
\* many individuals as its input, and holds an individual of maximal
\* fitness at index 0.
C15_SortedByFitness ==
  [][ EvaluateStep =>
        /\ Len(population') = Len(population)
        /\ \A k \in 1..(Len(population') - 1) :
             FGeq(population'[k].fitness, population'[k + 1].fitness)
        /\ \A k \in 1..Len(population') :
             FGeq(population'[1].fitness, population'[k].fitness) ]_vars

\* the fitness the claim gives a backtest result
C16_Expected(result) ==
  FSub(FSub(result.profit,
            IF result.accuracy < 40 * AccuracyScale THEN 50 * PercentScale ELSE 0),
       IF result.trades < 5 THEN 20 * PercentScale ELSE 0)

\* C16: for every individual evaluatePopulation backtests, the stored
\* fitness is profit - 50 * [accuracy < 40] - 20 * [trades < 5] of the
\* backtest result, stored with that accuracy and profit; a zero-trade
\* individual gets fitness profit - 70.
C16_FitnessFormula ==
  [][ EvaluateStep =>
        \A k \in backtested' :
          LET p == population[k].params
              result == backtestStrategy(candles, p)
          IN /\ \E m \in 1..Len(population') :
                  population'[m] = [params |-> p,
                                    fitness |-> C16_Expected(result),
                                    accuracy |-> result.accuracy,
                                    profit |-> result.profit]
             /\ result.trades = 0 =>
                  \E m \in 1..Len(population') :
                    /\ population'[m].params = p
                    /\ population'[m].profit = result.profit
                    /\ population'[m].fitness
                         = FSub(result.profit, 70 * PercentScale) ]_vars

\* the backtest of the k-th individual on the candles of the run
C16_Result(k) == backtestStrategy(candles, population[k].params)

\* an evaluated population with an individual that made no trade, one that
\* is not penalised, one penalised for few trades only and one penalised
\* for both reasons after trading
C16_Witness ==
  /\ phase = "step"
  /\ generation > 0
  /\ backtested # {}
  /\ \E a \in 1..Len(population) :
       /\ C16_Result(a).trades = 0
       /\ population[a].fitness = - 70 * PercentScale
  /\ \E b \in 1..Len(population) :
       /\ C16_Result(b).trades >= 5
       /\ C16_Result(b).accuracy >= 40 * AccuracyScale
       /\ population[b].fitness = population[b].profit
  /\ \E c \in 1..Len(population) :
       /\ C16_Result(c).trades < 5
       /\ C16_Result(c).accuracy >= 40 * AccuracyScale
       /\ population[c].fitness = population[c].profit - 20 * PercentScale
  /\ \E e \in 1..Len(population) :
       /\ C16_Result(e).trades > 0
       /\ population[e].fitness = population[e].profit - 70 * PercentScale

\* C17: evaluatePopulation returns an individual whose fitness is not 0
\* completely unchanged and runs no backtest for it; an individual whose
\* fitness is 0 is backtested on every pass, also when 0 is the fitness a
\* previous backtest gave it.
C17_SkipEvaluated ==
  [][ EvaluateStep =>
        \A k \in 1..Len(population) :
          IF population[k].fitness # 0
          THEN /\ k \notin backtested'
               /\ \E m \in 1..Len(population') : population'[m] = population[k]
          ELSE k \in backtested' ]_vars

\* a pass that has skipped one elite and backtested the other one again,
\* whose fitness of 0 comes from the backtest of the generation before
C17_Witness ==
  /\ phase = "step"
  /\ generation >= 2
  /\ 1 \notin backtested
  /\ 2 \in backtested
  /\ \E m \in 1..Len(population) :
       /\ population[m].fitness = 0
       /\ population[m].accuracy # 0
       /\ C16_Result(m).trades >= 5

\* the logical constraints on a parameter set
C18_Ordered(p) ==
  /\ p.smaFastPeriod < p.smaSlowPeriod
  /\ p.macdFast < p.macdSlow

\* C18: the parameter set mutate returns has smaFastPeriod < smaSlowPeriod
\* and macdFast < macdSlow, repairing it again changes nothing, and so
\* every individual of every population of a training run (initial or
\* evolved) has both fast periods below the slow ones.
C18_FastBelowSlow ==
  /\ phase = "mutated" =>
       /\ C18_Ordered(mutated)
       /\ Repair(mutated) = mutated
  /\ \A k \in 1..Len(population) : C18_Ordered(population[k].params)

\* mutate has repaired both pairs of an argument that had them out of order
C18_Witness ==
  /\ phase = "mutated"
  /\ params.smaFastPeriod >= params.smaSlowPeriod
  /\ params.macdFast >= params.macdSlow
  /\ mutated.smaSlowPeriod = params.smaSlowPeriod
  /\ mutated.macdSlow = params.macdSlow
  /\ mutated.smaFastPeriod = params.smaSlowPeriod \div 2
  /\ mutated.macdFast = params.macdSlow \div 2

\* the evaluation a backtest of p on the candles of the run gives
C19_Scored(p) ==
  LET result == backtestStrategy(candles, p)
  IN [params |-> p, fitness |-> Fitness(result),
      accuracy |-> result.accuracy, profit |-> result.profit]

\* C19: each child evolvePopulation produces (result indices 2..19) has
\* fitness 0, accuracy 0 and profit 0 and is therefore backtested by the
\* next evaluatePopulation; after that call every individual of the
\* population carries the fitness, accuracy and profit of a backtest of its
\* own params on the candles.
C19_ChildrenEvaluated ==
  [][ /\ EvolveStep =>
           \A k \in 3..Len(population') :
             /\ population'[k].fitness = 0
             /\ population'[k].accuracy = 0
             /\ population'[k].profit = 0
      /\ (EvaluateStep /\ generation > 0) =>
           /\ 3..Len(population) \subseteq backtested'
           /\ \A m \in 1..Len(population') :
                population'[m] = C19_Scored(population'[m].params) ]_vars

\* an evaluated later generation: both elites were skipped, the children
\* were backtested and differ in fitness
C19_Witness ==
  /\ phase = "step"
  /\ generation >= 2
  /\ backtested = 3..Len(population)
  /\ \E m, n \in 1..Len(population) :
       /\ population[m].fitness # population[n].fitness
       /\ population[m].fitness # 0
       /\ population[n].fitness # 0

\* C20: createInitialPopulation returns exactly 20 individuals, the one at
\* index 0 with DEFAULT_PARAMS and the other 19 with randomly generated
\* parameters, all with fitness 0, accuracy 0 and profit 0, so that the
\* first evaluatePopulation backtests all 20.
C20_InitialPopulation ==
  [][ /\ CreateStep =>
           /\ Len(population') = 20
           /\ population'[1].params = DEFAULT_PARAMS
           /\ \A k \in 1..Len(population') :
                /\ population'[k].fitness = 0
                /\ population'[k].accuracy = 0
                /\ population'[k].profit = 0
           /\ \A k \in 2..Len(population'), n \in 1..Len(Genes) :
                LET g == Genes[n]
                    v == population'[k].params[g]
                IN IF g = "volumeThreshold"
                   THEN 11 * RandMod <= v /\ v < 30 * RandMod
                   ELSE GeneRange[g][1] <= v /\ v <= GeneRange[g][2]
      /\ (EvaluateStep /\ generation = 0) => backtested' = 1..20 ]_vars

\* the first evaluation has backtested all 20, the baseline among them, and
\* the random individuals are not all alike
C20_Witness ==
  /\ phase = "step"
  /\ generation = 1
  /\ backtested = 1..20
  /\ \E k \in 1..Len(population) :
       /\ population[k].params = DEFAULT_PARAMS
       /\ population[k].fitness # 0
  /\ Cardinality({population[k].params : k \in 1..Len(population)}) = 20

\* ======================================================================
\* Properties of the training panel
\* ======================================================================
\* C21: the cancellation flag is checked once, at the start of a generation
\* step.  Whatever happens while the flag is cleared, short of a new start,
\* changes neither the population nor the generation counter and schedules
\* no step (a timer that fires is dropped); so after stopTraining with no
\* later start no step modifies the population.  A step that starts while
\* the flag is set runs its whole pass: one creation or evolution and one
\* evaluation, the counter advanced by one, the next step scheduled.
C21_Cancellation ==
  [][ /\ (starts' = starts /\ ~trainingRef) =>
           /\ population' = population
           /\ generation' = generation
           /\ log' = log
           /\ timers' = timers \/ timers' = Tail(timers)
      /\ (starts' = starts /\ trainingRef /\ trainingRef') =>
           /\ generation' = generation + 1
           /\ Len(log') = Len(log) + 2
           /\ timers' = Append(Tail(timers), Head(timers))
           /\ Len(population') = POPULATION_SIZE
           /\ bestStrategy' = population'[1] ]_vars

\* a run that made two steps was stopped and its pending timer has fired
C21_Witness ==
  /\ ~trainingRef
  /\ starts = 1
  /\ generation = 2
  /\ timers = << >>

\* C22: after startTraining the steps run in the order create, evaluate,
\* evolve, evaluate, ...; startTraining resets the generation counter, every
\* step advances it by exactly one, so that it is the number of evaluation
\* passes made since the start, and no handler runs more than one step.
C22_StepOrder ==
  /\ [](/\ Len(log) = 2 * generation
        /\ \A k \in 1..Len(log) :
             log[k] = IF k = 1 THEN "create"
                      ELSE IF k % 2 = 0 THEN "evaluate" ELSE "evolve")
  /\ [][ /\ starts' # starts => generation' = 1 /\ Len(log') = 2
         /\ (starts' = starts /\ log' # log) =>
              /\ generation' = generation + 1
              /\ SubSeq(log', 1, Len(log)) = log
              /\ Len(log') = Len(log) + 2 ]_vars

\* the second training run has made its second step
C22_Witness ==
  /\ starts = 2
  /\ generation = 2
  /\ log = << "create", "evaluate", "evolve", "evaluate" >>

\* ======================================================================
\* Properties of the optimizer's objects
\* ======================================================================
\* C23: evaluatePopulation and evolvePopulation write to no object that
\* existed when they were called: not to the array they are given, not to
\* an Individual, not to a StrategyParams object (DEFAULT_PARAMS is one),
\* not to the candle array; and evaluatePopulation gives every individual
\* the evaluation of its own params on the candles, whatever the other
\* individuals and its place in the array are.
C23_NoSharedMutableState ==
  [][ /\ \A ref \in 1..Len(heap) : heap'[ref] = heap[ref]
      /\ phase = "evaluate" =>
           /\ Len(population') = Len(population)
           /\ { population'[k] : k \in 1..Len(population') }
                = { Evaluated(population[k], candles) :
                      k \in 1..Len(population) } ]_vars

\* the second generation has been evaluated; its array holds an individual
\* of an earlier array (an elite) and the baseline still refers to
\* DEFAULT_PARAMS itself
C23_Witness ==
  /\ phase = "step"
  /\ generation = 2
  /\ \E array \in 1..Len(heap), k \in 1..POPULATION_SIZE :
       /\ array # populationRef
       /\ "items" \in DOMAIN heap[array]
       /\ Len(heap[array].items) = POPULATION_SIZE
       /\ \E n \in 1..POPULATION_SIZE :
            /\ heap[array].items[n] = heap[populationRef].items[k]
            /\ heap[heap[array].items[n]].params = DefaultParamsRef
            /\ heap[heap[array].items[n]].fitness # 0

\* ======================================================================
\* Properties of calculateBacktestMetrics
\* ======================================================================
\* gross wins and gross losses of the ledger
GrossWins == TotalPnL(Wins(trades))
GrossLosses == Abs(TotalPnL(Losses(trades)))

\* C24 as stated: the profit factor is 999 if and only if gross losses are 0
\* and gross wins are positive, and is 0 if and only if both are 0.
C24_ProfitFactorSentinelIff ==
  metrics # NoMetrics =>
    /\ RatEq(metrics.profitFactor, << ProfitFactorSentinel, 1 >>)
         <=> (GrossLosses = 0 /\ GrossWins > 0)
    /\ RatEq(metrics.profitFactor, RatZero)
         <=> (GrossLosses = 0 /\ GrossWins = 0)

\* C24: the profit factor is 999 when gross losses are 0 and gross wins are
\* positive, 0 when both are 0, and the quotient of gross wins and gross
\* losses when gross losses are positive; so it is 0 if and only if gross
\* wins are 0, and 999 also when gross wins are 999 times the gross losses.
C24_ProfitFactor ==
  metrics # NoMetrics =>
    /\ (GrossLosses = 0 /\ GrossWins > 0) =>
          metrics.profitFactor = << ProfitFactorSentinel, 1 >>
    /\ (GrossLosses = 0 /\ GrossWins = 0) => metrics.profitFactor = RatZero
    /\ GrossLosses > 0 => metrics.profitFactor = << GrossWins, GrossLosses >>
    /\ RatEq(metrics.profitFactor, RatZero) <=> GrossWins = 0
    /\ RatEq(metrics.profitFactor, << ProfitFactorSentinel, 1 >>)
         <=> \/ GrossLosses = 0 /\ GrossWins > 0
             \/ GrossLosses > 0 /\ GrossWins = ProfitFactorSentinel * GrossLosses

\* a ledger of losing trades only: the profit factor is 0
C24_Witness ==
  /\ metrics # NoMetrics
  /\ GrossWins = 0
  /\ GrossLosses > 0
  /\ metrics.losingTrades = 2
  /\ RatEq(metrics.profitFactor, RatZero)

\* ======================================================================
\* Properties of the metrics of a run
\* ======================================================================
\* C30: the totalPnL that runFuturesBacktest reports (ending capital minus
\* initial capital) equals the sum of pnl over the trades of the returned
\* ledger.
C30_TotalPnLFromLedger ==
  pc = "done" /\ metrics # NoMetrics => metrics.totalPnL = TotalPnL(trades)

\* ======================================================================
\* Properties of the indicator functions
\* ======================================================================
\* the call that was made and its result
Called(fn) == probe # << >> /\ probe.fn = fn /\ answer # << >>

\* the sum of the losses over the period most recent transitions
RecentLosses(prices, period) ==
  RsiLoop(Recent(prices, period + 1), 1, period, 0, 0)[2]

\* C25: calculateRSI(prices, period) is 50 when prices has fewer than
\* period + 1 values; otherwise it is computed from the period most recent
\* transitions (the last period + 1 values), and is 100 when the average
\* loss over them is zero.
C25_MostRecentTransitions ==
  Called("calculateRSI") =>
    LET prices == probe.prices
        period == probe.period
    IN /\ Len(prices) < period + 1 => answer[1] = Num(50)
       /\ Len(prices) >= period + 1 =>
            /\ answer[1] = calculateRSI(Recent(prices, period + 1), period)
            /\ RecentLosses(prices, period) = 0 => answer[1] = Num(100)

\* the winning conditions of generateSignal on the doubled scores
BullishWins(features, p) ==
  /\ bullishScore(features, p) > bearishScore(features, p)
  /\ bullishScore(features, p) > 6
BearishWins(features, p) ==
  /\ bearishScore(features, p) > bullishScore(features, p)
  /\ bearishScore(features, p) > 6

\* C26: generateSignal returns BUY exactly when the bullish score is
\* strictly greater than the bearish score and than 3, SELL exactly when
\* the bearish score is strictly greater than the bullish score and than 3,
\* and HOLD in every other case; the two conditions never hold together.
C26_SignalRule ==
  Called("generateSignal") =>
    LET features == probe.features
        p == probe.params
        signal == answer[1].signal
    IN /\ signal = "BUY" <=> BullishWins(features, p)
       /\ signal = "SELL" <=> BearishWins(features, p)
       /\ signal = "HOLD" <=> (~BullishWins(features, p) /\ ~BearishWins(features, p))
       /\ ~(BullishWins(features, p) /\ BearishWins(features, p))

\* HOLD on a bullish score of exactly 3 against a smaller bearish score
C26_Witness ==
  /\ Called("generateSignal")
  /\ bullishScore(probe.features, probe.params) = 6
  /\ bearishScore(probe.features, probe.params) = 3
  /\ answer[1].signal = "HOLD"

\* the fitness of a strategy without a trade: both penalties off a profit of 0
NoTradeFitness == 0 - (LowAccuracyPenalty + FewTradesPenalty) * PercentScale

\* C29: evaluatePopulation fails for no population and no candle series,
\* the empty series and the series shorter than the warm-up of an
\* individual included: the result has the size of the argument, holds
\* every individual of it, and an individual whose backtest made no trade
\* has the penalized fitness -70.
C29_EvaluationNeverFails ==
  Called("evaluatePopulation") =>
    LET pop == probe.population
        c == probe.candles
        result == answer[1]
    IN /\ result # TypeError
       /\ Len(result) = Len(pop)
       /\ \A k \in 1..Len(pop) :
            \E n \in 1..Len(result) : result[n].params = pop[k].params
       /\ \A n \in 1..Len(result) :
            /\ c.length <= minDataPoints(result[n].params) =>
                 result[n].fitness = NoTradeFitness
            /\ backtestStrategy(c, result[n].params) # TypeError

\* the population evaluated on the empty series
C29_Witness ==
  /\ Called("evaluatePopulation")
  /\ probe.candles.length = 0
  /\ Len(answer[1]) = POPULATION_SIZE
  /\ \A n \in 1..POPULATION_SIZE : answer[1][n].fitness = NoTradeFitness

\* ---------------------------------------------------------------------
\* Properties of runs on whole series
\* ---------------------------------------------------------------------

\* every bar of the series has the high, the low and the close of the first
\* and the same volume and open interest
IsFlat(data) ==
  \A k \in 1..Len(data) :
    data[k] = Bar(data[1].close, data[1].close, data[1].close,
                  data[1].volume, data[1].openInterest)

\* C27: on a flat series long enough to warm up the simulator never enters:
\* a run of runFuturesBacktest holds no position at any bar and ends with an
\* empty ledger and the initial capital, and backtestStrategy returns 0
\* trades and 0 profit.
C27_FlatSeriesNeverEnters ==
  IsFlat(historicalData) =>
    /\ at >= WarmUp =>
         /\ walk.openPositions = << >>
         /\ walk.trades = << >>
         /\ walk.capital = config.initialCapital
    /\ at = -1 /\ strategy # NoStrategy =>
         /\ strategy[1].trades = 0
         /\ strategy[1].profit = 0

\* the closes rise by one from bar to bar
IsRising(data) ==
  \A k \in 1..Len(data) : data[k].close = Num(99 + k)

\* C28: the run of runFuturesBacktest with DEFAULT_BACKTEST_CONFIG on the
\* series of 300 daily bars rising by 1 from 100 ends with a ledger that
\* holds a LONG trade closed for TARGET or END_OF_DATA and with a capital
\* not below the initial capital.
C28_RisingSeriesTradesLong ==
  /\ at >= WarmUp
  /\ IsRising(historicalData)
  /\ config = DEFAULT_BACKTEST_CONFIG
  /\ metrics # NoMetrics
  => /\ \E n \in 1..Len(walk.trades) :
          /\ walk.trades[n].type = "LONG"
          /\ walk.trades[n].exitReason \in {"TARGET", "END_OF_DATA"}
     /\ walk.capital >= config.initialCapital

\* ======================================================================
\* Properties of the position set and the ledger of a run
\* ======================================================================
\* the entry dates of a sequence of positions or of trades
EntryDates(s) == { s[n].entryDate : n \in 1..Len(s) }

\* no two elements of s stand for the same position
OnePerEntry(s) ==
  \A m \in 1..Len(s), n \in 1..Len(s) :
    m # n => s[m].entryDate # s[n].entryDate

\* the entries the run has made so far
EntriesMade == EntryDates(trades) \cup EntryDates(openPositions)

\* C31: every position that is opened becomes exactly one Trade and leaves
\* the open set: an entry adds one position, the reverse scan visits every
\* open position of the bar once (a removal moves no position that is still
\* to be visited), a position is never dropped and never recorded twice, the
\* finished run has as many trades as it made entries, and the ledger is in
\* the order of non-decreasing exitDate.
C31_EveryPositionOneTrade ==
  /\ [](/\ OnePerEntry(trades)
        /\ OnePerEntry(openPositions)
        /\ pc # "done" => EntryDates(trades) \cap EntryDates(openPositions) = {}
        /\ pc = "done" => /\ EntryDates(openPositions) \subseteq EntryDates(trades)
                          /\ Len(trades) = Cardinality(EntriesMade)
        /\ \A n \in 1..(Len(trades) - 1) :
             trades[n].exitDate <= trades[n + 1].exitDate)
  /\ [][ /\ EntriesMade \subseteq EntriesMade'
         /\ EntriesMade' # EntriesMade =>
              /\ pc = "entry"
              /\ EntriesMade' = EntriesMade \cup {Timestamp(i)}
              /\ openPositions' = Append(openPositions,
                                         openPositions'[Len(openPositions')])
              /\ trades' = trades
         /\ (pc = "bar" /\ pc' = "exit") => j' = Len(openPositions)
         /\ (pc = "exit" /\ j >= 1) =>
              /\ j' = j - 1
              /\ SubSeq(openPositions', 1, j - 1) = SubSeq(openPositions, 1, j - 1)
              /\ \/ /\ trades' = trades
                    /\ Len(openPositions') = Len(openPositions)
                    /\ SubSeq(openPositions', j + 1, Len(openPositions))
                         = SubSeq(openPositions, j + 1, Len(openPositions))
                 \/ /\ trades' = Append(trades, trades'[Len(trades')])
                    /\ trades'[Len(trades')].entryDate = openPositions[j].entryDate
                    /\ Len(openPositions') = Len(openPositions) - 1
                    /\ SubSeq(openPositions', j, Len(openPositions'))
                         = SubSeq(openPositions, j + 1, Len(openPositions))
         /\ (pc = "exit" /\ j = 0) => openPositions' = openPositions /\ trades' = trades
       ]_vars

\* a finished run in which the scan took the first of two open positions
\* out of the set and left the second, which the final close recorded
C31_Witness ==
  /\ pc = "done"
  /\ Len(trades) = 2
  /\ Len(openPositions) = 1
  /\ InLoop(trades[1])
  /\ ~InLoop(trades[2])
  /\ trades[1].entryDate < trades[2].entryDate
  /\ trades[2].entryDate < trades[1].exitDate

\* C32: for every series of at least 200 bars runFuturesBacktest raises no
\* error and returns a result, and for a series of exactly 200 bars the
\* result has an empty ledger and the initial capital as ending capital.
C32_LongEnoughSeriesReturns ==
  len >= WarmUp =>
    /\ pc \notin {"error", "typeError"}
    /\ (len = WarmUp /\ pc \notin {"start", "bar"}) =>
         /\ pc = "done"
         /\ metrics # NoMetrics
         /\ trades = << >>
         /\ capital = config.initialCapital

\* C33: every position is bracketed by its own levels at entry, whatever
\* contract.lastPrice and the close of the entry bar are: for a LONG
\* stopLoss < entryPrice < target and trailingStop < entryPrice, for a SHORT
\* target < entryPrice < stopLoss and trailingStop > entryPrice.
C33_LevelsBracketEntry ==
  \A n \in 1..Len(openPositions) :
    LET pos == openPositions[n]
        opened == pc = "equity" /\ pos.entryDate = Timestamp(i)
    IN /\ pos.type = "LONG" =>
            /\ pos.stopLoss < pos.entryPrice
            /\ pos.entryPrice < pos.target
            /\ opened => pos.trailingStop < pos.entryPrice
       /\ pos.type = "SHORT" =>
            /\ pos.target < pos.entryPrice
            /\ pos.entryPrice < pos.stopLoss
            /\ opened => pos.trailingStop > pos.entryPrice

\* the margin the positions of s require together
RECURSIVE CommittedMargin(_)
CommittedMargin(s) ==
  IF s = << >> THEN 0
  ELSE RequiredMargin(Head(s).quantity, contract) + CommittedMargin(Tail(s))

\* C34: while the run is in its loop the margin required by all open
\* positions together does not exceed the capital, and an entry is made
\* only when the capital that is not committed to the positions already
\* open exceeds the margin of the new position with the 20% buffer.
C34_MarginCovered ==
  /\ pc \in {"bar", "exit", "entry", "equity"} =>
       CommittedMargin(openPositions) <= capital
  /\ \A n \in 1..Len(openPositions) :
       (pc = "equity" /\ openPositions[n].entryDate = Timestamp(i)) =>
         HasCapital(capital + config.commission
                      - CommittedMargin(SubSeq(openPositions, 1, n - 1)),
                    openPositions[n].quantity, contract)

\* ======================================================================
\* Properties of the generations of a training run
\* ======================================================================
\* C35: in the loop evaluate, evolve, evaluate, ... on one candle series the
\* best individual of a generation (index 0 after evaluatePopulation) is
\* carried into the next generation and is still in it, with the same
\* params and fitness, after the next evaluatePopulation, and the best
\* fitness of the next generation is not below it.
C35_BestNeverDecreases ==
  [][ /\ EvolveStep => population'[1] = population[1]
      /\ (EvaluateStep /\ generation > 0) =>
           /\ \E n \in 1..Len(population') :
                /\ population'[n].params = population[1].params
                /\ population'[n].fitness = population[1].fitness
           /\ ~FLess(population'[1].fitness, population[1].fitness)
           /\ population[1].fitness # NaN =>
                FGeq(population'[1].fitness, population[1].fitness) ]_vars

\* a third generation has been evaluated: the two elites kept their scores
\* without a backtest, the eighteen children were backtested, and the best
\* is strictly better than another individual
C35_Witness ==
  /\ phase = "step"
  /\ generation = 3
  /\ backtested = 3..POPULATION_SIZE
  /\ population[1].fitness # NaN
  /\ \E n \in 2..Len(population) :
       FLess(population[n].fitness, population[1].fitness)

\* ======================================================================
\* Properties of the step chains of the training panel
\* ======================================================================
\* a pending timer callback runs a generation when it fires
RunsGeneration ==
  /\ timers # << >>
  /\ timers' = Append(Tail(timers), Head(timers))
  /\ generation' = generation + 1

\* C36: at most one chain of generation steps is live at any time, for
\* every interleaving of startTraining, stopTraining and timer callbacks:
\* while training is on at most one step is scheduled, and a step that runs
\* a generation was scheduled by the run that is on, on whose candles it
\* works.
C36_OneStepChain ==
  /\ [](trainingRef => Len(timers) <= 1)
  /\ [][ (RunsGeneration /\ starts' = starts) => Head(timers) = candles ]_vars

\* ======================================================================
\* Properties of the order service
\* ======================================================================
\* a call of cancelOrder is resumed and returns
CancelReturns == Len(results') = Len(results) + 1

\* C37: cancelOrder returns true and sets the status CANCELLED only for an
\* order that is PENDING, and returns false and leaves the orders as they
\* are otherwise; CANCELLED is terminal for every interleaving of
\* placeOrder, cancelOrder and the fill timer: a cancelled order stays
\* CANCELLED, is never FILLED, and its fill timer leaves the position list
\* as it is.
C37_CancelledIsTerminal ==
  [][ /\ CancelReturns =>
           LET r == results'[Len(results')]
               k == FindOrder(orders, r.orderId)
           IN IF k # 0 /\ orders[k].status = "PENDING"
              THEN /\ r.returned
                   /\ orders' = [orders EXCEPT ![k].status = "CANCELLED"]
              ELSE /\ ~r.returned
                   /\ orders' = orders
      /\ \A k \in 1..Len(orders) :
           orders[k].status = "CANCELLED" =>
             /\ orders'[k] = orders[k]
             /\ (fills # << >> /\ Head(fills) = k /\ fills' = Tail(fills)) =>
                  positions' = positions ]_vars

\* ---------------------------------------------------------------------
\* Properties of a call of backtestStrategy
\* ---------------------------------------------------------------------
\* the call is in its loop
InStrategyLoop == answer # << >> /\ answer.at = "loop"

\* the call has returned
StrategyReturned == answer # << >> /\ answer.at = "returned"

\* the result of a call that traded nothing
NothingTraded == [profit |-> 0, accuracy |-> 0, trades |-> 0]

\* C38: backtestStrategy holds at most one long position: a BUY while long
\* and a SELL while flat change nothing, an entry is followed by an exit
\* before the next entry, every exit counts one trade and nothing else
\* does, a position still open after the loop is closed at the last close
\* and counted, the wins never exceed the trades and the accuracy is within
\* 0 and 100; a series with no more candles than the index the loop starts
\* at returns 0 trades, 0 accuracy and 0 profit.
C38_OneLongPosition ==
  /\ [](/\ InStrategyLoop =>
             /\ answer.st.position \in {0, 1}
             /\ answer.st.wins <= answer.st.totalTrades
        /\ StrategyReturned =>
             /\ answer.result # TypeError
             /\ answer.result.accuracy >= 0
             /\ answer.result.accuracy <= 100 * AccuracyScale
             /\ probe.candles.length <= minDataPoints(probe.params) =>
                  answer.result = NothingTraded)
  /\ [][ /\ (InStrategyLoop /\ answer'.at = "loop") =>
              LET st == answer.st
                  next == answer'.st
                  candle == CandleAt(probe.candles, answer.i)
                  signal == generateSignal(candle, probe.params).signal
              IN /\ (signal = "BUY" /\ st.position = 1) => next = st
                 /\ (signal = "SELL" /\ st.position = 0) => next = st
                 /\ signal = "HOLD" => next = st
                 /\ (st.position = 0 /\ next.position = 1) =>
                      /\ signal = "BUY"
                      /\ next = [st EXCEPT !.position = 1,
                                           !.entryPrice = candle.close]
                 /\ (st.position = 1 /\ next.position = 0) =>
                      /\ signal = "SELL"
                      /\ next.totalTrades = st.totalTrades + 1
                      /\ next.wins \in {st.wins, st.wins + 1}
                 /\ next.position = st.position => next = st
         /\ (InStrategyLoop /\ answer'.at = "returned") =>
              LET st == answer.st
                  result == answer'.result
                  last == CandleAt(probe.candles, probe.candles.length - 1)
              IN IF st.position = 1
                 THEN /\ result.trades = st.totalTrades + 1
                      /\ result.profit =
                           FSub(ClosePosition(st, last.close).balance,
                                InitialBalance * BalanceScale)
                 ELSE /\ result.trades = st.totalTrades
                      /\ result.profit =
                           FSub(st.balance, InitialBalance * BalanceScale) ]_vars

\* the series with a BUY while long, a SELL while flat and an entry at the
\* last candle has returned: two trades, one of them won
C38_Witness ==
  /\ StrategyReturned
  /\ probe.candles = Series(60, Repeats)
  /\ probe.params = DEFAULT_PARAMS
  /\ answer.st.position = 1
  /\ answer.st.totalTrades = 1
  /\ answer.result.trades = 2
  /\ answer.result.accuracy = 50 * AccuracyScale
  /\ answer.result = backtestStrategy(probe.candles, probe.params)

\* ---------------------------------------------------------------------
\* Properties of the genes of a population
\* ---------------------------------------------------------------------
\* the ranges the genes are sampled from, the volume threshold in units of
\* 1/VolumeScale
SamplingRange ==
  [rsiPeriod |-> << 5, 30 >>, rsiOverbought |-> << 60, 90 >>,
   rsiOversold |-> << 10, 40 >>, macdFast |-> << 5, 20 >>,
   macdSlow |-> << 21, 50 >>, macdSignal |-> << 5, 15 >>,
   smaFastPeriod |-> << 5, 50 >>, smaSlowPeriod |-> << 51, 200 >>,
   volatilityPeriod |-> << 10, 50 >>,
   volumeThreshold |-> << 11 * RandMod, 30 * RandMod >>]

InSamplingRange(g, value) ==
  SamplingRange[g][1] <= value /\ value <= SamplingRange[g][2]

\* C39 as stated: every individual of a population other than the default
\* baseline has every gene inside its sampling range.
C39_GenesInRange ==
  \A k \in 1..Len(population) :
    population[k].params # DEFAULT_PARAMS =>
      \A n \in 1..Len(Genes) :
        InSamplingRange(Genes[n], population[k].params[Genes[n]])

\* C39, amended: every gene of every individual of a population is inside
\* its sampling range or is the value the default baseline has for that
\* gene, which a child inherits through crossover; only the slow MA period
\* 50 of the baseline is outside (the range is 51..200).
C39_GenesInRangeOrInherited ==
  /\ \A n \in 1..Len(Genes) :
       InSamplingRange(Genes[n], DEFAULT_PARAMS[Genes[n]])
         <=> Genes[n] # "smaSlowPeriod"
  /\ \A k \in 1..Len(population) :
       \A n \in 1..Len(Genes) :
         LET g == Genes[n]
             value == population[k].params[g]
         IN InSamplingRange(g, value) \/ value = DEFAULT_PARAMS[g]

\* a population after an evolution holds a child that is not the baseline
\* and has its slow MA period 50
C39_Witness ==
  /\ generation >= 1
  /\ \E k \in 1..Len(population) :
       /\ population[k].params # DEFAULT_PARAMS
       /\ population[k].params.smaSlowPeriod = DEFAULT_PARAMS.smaSlowPeriod
       /\ ~InSamplingRange("smaSlowPeriod", population[k].params.smaSlowPeriod)

\* ---------------------------------------------------------------------
\* Properties of the exit reasons of the ledger of a run
\* ---------------------------------------------------------------------
\* the run has closed what was open at the end of the series
RunOver == pc \in {"done", "typeError"}

\* C40: the exit reason of a trade names the rule that closed it.  A trade
\* the exit scan records is a TARGET trade only when the target matched, and
\* fills at the target; it is a STOP_LOSS trade only when the fixed stop is in
\* use and matched, filling at the stop moved by the slippage, or the
\* trailing stop is in use and matched, filling at the trailing stop moved by
\* the slippage; END_OF_DATA is given only by the final close, at the last
\* bar and its close; no trade of a ledger has SIGNAL, and with both stops
\* out of use every trade is TARGET or END_OF_DATA.
C40_ExitReasonNamesRule ==
  /\ [](\A n \in 1..Len(trades) :
          LET t == trades[n]
          IN /\ t.exitReason \in {"TARGET", "STOP_LOSS", "END_OF_DATA"}
             /\ (~config.useStopLoss /\ ~config.useTrailingStop) =>
                  t.exitReason \in {"TARGET", "END_OF_DATA"}
             /\ t.exitReason = "END_OF_DATA" =>
                  /\ RunOver
                  /\ t.exitDate = Timestamp(len - 1)
                  /\ t.exitPrice = Close(len - 1))
  /\ [][ /\ (pc = "exit" /\ Len(trades') > Len(trades)) =>
              LET pos == scan'.position
                  p == Close(i)
                  long == pos.type = "LONG"
                  Breached(level) == IF long THEN p <= level ELSE p >= level
                  Adverse(level) == IF long THEN level - config.slippage
                                            ELSE level + config.slippage
                  t == trades'[Len(trades')]
              IN /\ trades' = Append(trades, t)
                 /\ pos = UpdateTrailingStop(openPositions[j], p, config)
                 /\ t.exitReason \in {"TARGET", "STOP_LOSS"}
                 /\ t.exitReason = "TARGET" =>
                      /\ IF long THEN p >= pos.target ELSE p <= pos.target
                      /\ t.exitPrice = pos.target
                 /\ t.exitReason = "STOP_LOSS" =>
                      \/ /\ config.useStopLoss
                         /\ Breached(pos.stopLoss)
                         /\ t.exitPrice = Adverse(pos.stopLoss)
                      \/ /\ config.useTrailingStop
                         /\ Breached(pos.trailingStop)
                         /\ t.exitPrice = Adverse(pos.trailingStop)
         /\ (pc # "exit" /\ Len(trades') > Len(trades)) =>
              /\ pc = "bar"
              /\ RunOver'
              /\ Len(trades') = Len(trades) + Len(openPositions)
              /\ SubSeq(trades', 1, Len(trades)) = trades
              /\ \A n \in (Len(trades) + 1)..Len(trades') :
                   trades'[n].exitReason = "END_OF_DATA" ]_vars

\* a finished run with both stops out of use whose ledger holds a trade
\* closed at its target and one closed at the end of the data
C40_Witness ==
  /\ pc = "done"
  /\ ~config.useStopLoss
  /\ ~config.useTrailingStop
  /\ \E n \in 1..Len(trades) : trades[n].exitReason = "TARGET"
  /\ \E n \in 1..Len(trades) : trades[n].exitReason = "END_OF_DATA"

====
